---- MODULE Spec2Model ----
(***************************************************************************)
(* The "elixir projects" subsystem of steve                                *)
(* (src/src/tools/elixir_projects.rs): project discovery, the project      *)
(* cache and the ignore list, resolution, the request dispatcher and the   *)
(* handlers of its ten actions, with the external commands they run.       *)
(*                                                                         *)
(* Strings are sequences of bytes (ASCII codes), a PathBuf is the sequence *)
(* of its components (all paths are absolute), a file is the sequence of   *)
(* its lines.                                                              *)
(***************************************************************************)
EXTENDS Integers, Sequences, FiniteSets, TLC

VARIABLES
    dirs,       \* the directories that exist on disk (paths)
    files,      \* the regular files that exist on disk (paths)
    cache,      \* the cache record ~/.cache/steve/projects: [exists, lines]
    ignored,    \* the ignore record ~/.cache/steve/ignored: [exists, lines]
    writable,   \* TRUE while ~/.cache/steve can be created and written
    full,       \* TRUE while the disk has no room left: a file can be created
                \* or truncated, and nothing can be written to it
    req,        \* the request whose result is on its way to the caller, or NoReq
    pre,        \* the disk and the records as they were when that request arrived
    trace,      \* what that request did to the disk and the records, in order
    resolved,   \* what get_elixir_projects returned to that request (ret), and
                \* how many entries of the trace are its own (steps)
    projects,   \* the project set that request handed to its handler
    result,     \* the CallToolResult of that request
    hist,       \* the last direct call of a cache function (call) and, when that
                \* is a load, the call before it (prev), with no change of the
                \* disk since
    inst,       \* the instances of the tool that run side by side on the same
                \* records: where each is in its handler and what it holds
                \* (proc), and the reads and writes of the ignore record (log)
    past,       \* the requests answered so far where they are kept, oldest
                \* first: what each found, did and returned
    batch       \* the request whose commands are run one by one: where it is
                \* (pc), the commands it has still to run (queue), whether
                \* it waits for a command it has started (waiting), and the
                \* outputs of those that are done (outs)

vars == <<dirs, files, cache, ignored, writable, full, req, pre, trace, resolved, projects, result, hist, inst,
          past, batch>>

----------------------------------------------------------------------------
(* Bounds of the model. *)

\* At most this many project directories exist at once below the roots.
MaxProjects == 2

\* A sequence of requests that is kept has at most this many requests.
MaxPast == 4

----------------------------------------------------------------------------
(* Strings. *)

s_home      == <<104, 111, 109, 101>>
s_src       == <<115, 114, 99>>
s_flt       == <<102, 108, 116>>
s_alt       == <<97, 108, 116>>
s_Club      == <<67, 108, 117, 98>>
s_moneyclub == <<109, 111, 110, 101, 121, 99, 108, 117, 98>>
s_oneiros   == <<111, 110, 101, 105, 114, 111, 115>>
s_CLUB      == <<67, 76, 85, 66>>
s_oney      == <<111, 110, 101, 121>>
s_slash     == <<47>>
s_tilde     == <<126, 47>>
s_src_flt   == s_src \o s_slash \o s_flt

None == [some |-> FALSE, val |-> <<>>]
Some(v) == [some |-> TRUE, val |-> v]

\* str::to_lowercase, on ASCII
ToLowerByte(b) == IF b >= 65 /\ b <= 90 THEN b + 32 ELSE b

to_lowercase(s) == [i \in 1..Len(s) |-> ToLowerByte(s[i])]

\* str::contains
contains(hay, needle) ==
    \E i \in 0..(Len(hay) - Len(needle)) :
        SubSeq(hay, i + 1, i + Len(needle)) = needle

\* str::starts_with
starts_with(s, prefix) ==
    Len(s) >= Len(prefix) /\ SubSeq(s, 1, Len(prefix)) = prefix

\* Ord for byte strings: lexicographic
RECURSIVE BytesLess(_, _)
BytesLess(a, b) ==
    IF a = <<>> THEN b # <<>>
    ELSE IF b = <<>> THEN FALSE
    ELSE IF Head(a) # Head(b) THEN Head(a) < Head(b)
    ELSE BytesLess(Tail(a), Tail(b))

----------------------------------------------------------------------------
(* Paths. *)

\* str::split('/') without the empty pieces: the Normal components of a path
RECURSIVE Components(_, _)
Components(s, cur) ==
    IF s = <<>> THEN (IF cur = <<>> THEN <<>> ELSE <<cur>>)
    ELSE IF Head(s) = 47
         THEN (IF cur = <<>> THEN <<>> ELSE <<cur>>) \o Components(Tail(s), <<>>)
         ELSE Components(Tail(s), Append(cur, Head(s)))

\* PathBuf::from, of the text of an absolute path
PathBufFrom(s) == Components(s, <<>>)

\* display, were it to leave out the separators
RECURSIVE display_unseparated(_)
display_unseparated(p) ==
    IF p = <<>> THEN <<>> ELSE Head(p) \o display_unseparated(Tail(p))

\* Path::display().to_string(), of an absolute path
RECURSIVE display(_)
display(p) ==
    IF p = <<>> THEN <<>> ELSE s_slash \o Head(p) \o display(Tail(p))

\* Path::join, with a relative path given as text
join(p, rel) == p \o Components(rel, <<>>)

\* Path::file_name
file_name(p) == IF p = <<>> THEN None ELSE Some(p[Len(p)])

\* Path::parent
parent(p) == IF p = <<>> THEN None ELSE Some(SubSeq(p, 1, Len(p) - 1))

\* Ord for PathBuf: the components compared one by one
RECURSIVE PathLess(_, _)
PathLess(p, q) ==
    IF p = <<>> THEN q # <<>>
    ELSE IF q = <<>> THEN FALSE
    ELSE IF Head(p) # Head(q) THEN BytesLess(Head(p), Head(q))
    ELSE PathLess(Tail(p), Tail(q))

IsPrefix(p, q) == Len(p) <= Len(q) /\ SubSeq(q, 1, Len(p)) = p

\* dirs::home_dir()
home_dir == Some(<<s_home>>)

----------------------------------------------------------------------------
(* The disk: the directories and files the model lets exist. *)

s_mix_exs == <<109, 105, 120, 46, 101, 120, 115>>

\* ~/src/flt, the default root of scan_elixir_projects
DefaultRoot == join(home_dir.val, s_src_flt)

\* /alt, a root given as the path of a request
AltRoot == <<s_alt>>

Roots == {DefaultRoot, AltRoot}

\* The directories that can hold a project
ProjectDirs ==
    { Append(DefaultRoot, s_Club),
      Append(DefaultRoot, s_moneyclub),
      Append(DefaultRoot, s_oneiros),
      Append(AltRoot, s_Club) }

DirUniverse == Roots \cup ProjectDirs

MixFile(d) == join(d, s_mix_exs)

\* The fields of a request
ProjectInputs == {None, Some(<<>>), Some(s_CLUB), Some(s_oney)}

PathInputs == {None, Some(display(AltRoot))}

\* Everything below directory d, d included
Below(d, S) == {x \in S : IsPrefix(d, x)}

\* Path::exists
exists(w, p) == p \in w.dirs \/ p \in w.files

----------------------------------------------------------------------------
(* The world a handler runs in: the disk, the two records and the trace of   *)
(* what the handler did.  Every function below takes the world and returns  *)
(* the world it leaves, with its return value in ret.                       *)

World == [dirs |-> dirs, files |-> files, cache |-> cache, ignored |-> ignored,
          writable |-> writable, full |-> full, trace |-> <<>>]

Ev(op, path, data) == [op |-> op, path |-> path, data |-> data]

Did(w, e) == [w EXCEPT !.trace = Append(@, e)]

Ret(w, v) == [w |-> w, ret |-> v]

Range(s) == {s[i] : i \in 1..Len(s)}

\* sort, were it to put the greatest path first
RECURSIVE sort_descending(_)
sort_descending(S) ==
    IF S = {} THEN <<>>
    ELSE LET m == CHOOSE x \in S : \A y \in S : x = y \/ PathLess(y, x)
         IN  <<m>> \o sort_descending(S \ {m})

\* A Vec<PathBuf> sorted by Ord, from the set of its elements
RECURSIVE sort(_)
sort(S) ==
    IF S = {} THEN <<>>
    ELSE LET m == CHOOSE x \in S : \A y \in S : x = y \/ PathLess(x, y)
         IN  <<m>> \o sort(S \ {m})

\* sort, of names, were it to put the greatest name first
RECURSIVE sort_names_descending(_)
sort_names_descending(S) ==
    IF S = {} THEN <<>>
    ELSE LET m == CHOOSE x \in S : \A y \in S : x = y \/ BytesLess(y, x)
         IN  <<m>> \o sort_names_descending(S \ {m})

\* A Vec<String> sorted by Ord, from the set of its elements
RECURSIVE sort_names(_)
sort_names(S) ==
    IF S = {} THEN <<>>
    ELSE LET m == CHOOSE x \in S : \A y \in S : x = y \/ BytesLess(x, y)
         IN  <<m>> \o sort_names(S \ {m})

----------------------------------------------------------------------------
(* Ignore store. *)

get_cache_path == join(home_dir.val, <<46, 99, 97, 99, 104, 101, 47, 115, 116, 101, 118, 101, 47, 112, 114, 111, 106, 101, 99, 116, 115>>)

get_ignore_path == join(home_dir.val, <<46, 99, 97, 99, 104, 101, 47, 115, 116, 101, 118, 101, 47, 105, 103, 110, 111, 114, 101, 100>>)

\* The lines are collected into a HashSet: the record is modelled by the set
\* of its lines, their order in the file being read by nobody.
load_ignored_projects(w) ==
    IF ~w.ignored.exists
    THEN Ret(Did(w, Ev("load_ignored", get_ignore_path, {})), {})
    ELSE Ret(Did(w, Ev("load_ignored", get_ignore_path, w.ignored.lines)), w.ignored.lines)

\* create_dir_all or File::create fails and the record stays as it is, or
\* File::create has emptied the record and the first writeln! fails
save_ignored_projects(w, names) ==
    IF ~w.writable
    THEN Ret(Did(w, Ev("save_ignored_failed", get_ignore_path, names)), FALSE)
    ELSE IF w.full /\ names # {}
    THEN Ret(Did([w EXCEPT !.ignored = [exists |-> TRUE, lines |-> {}]],
                 Ev("save_ignored_failed", get_ignore_path, names)), FALSE)
    ELSE Ret(Did([w EXCEPT !.ignored = [exists |-> TRUE, lines |-> names]],
                 Ev("save_ignored", get_ignore_path, names)), TRUE)

----------------------------------------------------------------------------
(* Project cache. *)

\* create_dir_all or File::create fails and the record stays as it is, or
\* File::create has emptied the record and the first writeln! fails
save_projects_to_cache(w, ps) ==
    IF ~w.writable
    THEN Ret(Did(w, Ev("save_cache_failed", get_cache_path, ps)), FALSE)
    ELSE IF w.full /\ ps # <<>>
    THEN Ret(Did([w EXCEPT !.cache = [exists |-> TRUE, lines |-> <<>>]],
                 Ev("save_cache_failed", get_cache_path, ps)), FALSE)
    ELSE Ret(Did([w EXCEPT !.cache =
                     [exists |-> TRUE, lines |-> [i \in 1..Len(ps) |-> display(ps[i])]]],
                 Ev("save_cache", get_cache_path, ps)), TRUE)

\* load_projects_from_cache, were it to answer None when no entry is left, so
\* that an empty record counts as no record
load_projects_from_cache_none_if_empty(w) ==
    LET Valid(p) == exists(w, p) /\ exists(w, MixFile(p))
        Update(w1, kept, needs_update) ==
            IF needs_update THEN save_projects_to_cache(w1, kept).w ELSE w1
        Answer(kept) == IF kept = <<>> THEN None ELSE Some(kept)
        Read(paths, kept) ==
            Ret(Update(Did(w, Ev("load_cache", get_cache_path, Answer(kept))),
                       kept, \E i \in 1..Len(paths) : ~Valid(paths[i])),
                Answer(kept))
        Lines(paths) == Read(paths, SelectSeq(paths, Valid))
    IN  IF ~w.cache.exists
        THEN Ret(Did(w, Ev("load_cache", get_cache_path, None)), None)
        ELSE Lines([i \in 1..Len(w.cache.lines) |-> PathBufFrom(w.cache.lines[i])])

\* load_projects_from_cache, were it to keep every entry that exists, with or
\* without mix.exs
load_projects_from_cache_any_dir(w) ==
    LET Valid(p) == exists(w, p)
        Update(w1, kept, needs_update) ==
            IF needs_update THEN save_projects_to_cache(w1, kept).w ELSE w1
        Read(paths, kept) ==
            Ret(Update(Did(w, Ev("load_cache", get_cache_path, Some(kept))),
                       kept, \E i \in 1..Len(paths) : ~Valid(paths[i])),
                Some(kept))
        Lines(paths) == Read(paths, SelectSeq(paths, Valid))
    IN  IF ~w.cache.exists
        THEN Ret(Did(w, Ev("load_cache", get_cache_path, None)), None)
        ELSE Lines([i \in 1..Len(w.cache.lines) |-> PathBufFrom(w.cache.lines[i])])

load_projects_from_cache(w) ==
    LET Valid(p) == exists(w, p) /\ exists(w, MixFile(p))
        Update(w1, kept, needs_update) ==
            IF needs_update THEN save_projects_to_cache(w1, kept).w ELSE w1
        Read(paths, kept) ==
            Ret(Update(Did(w, Ev("load_cache", get_cache_path, Some(kept))),
                       kept, \E i \in 1..Len(paths) : ~Valid(paths[i])),
                Some(kept))
        Lines(paths) == Read(paths, SelectSeq(paths, Valid))
    IN  IF ~w.cache.exists
        THEN Ret(Did(w, Ev("load_cache", get_cache_path, None)), None)
        ELSE Lines([i \in 1..Len(w.cache.lines) |-> PathBufFrom(w.cache.lines[i])])

----------------------------------------------------------------------------
(* Discovery scanner. *)

skip_dirs ==
    { <<100, 101, 112, 115>>,
      <<95, 98, 117, 105, 108, 100>>,
      <<46, 101, 108, 105, 120, 105, 114, 95, 108, 115>>,
      <<110, 111, 100, 101, 95, 109, 111, 100, 117, 108, 101, 115>>,
      <<46, 103, 105, 116>>,
      <<95, 99, 104, 101, 99, 107, 111, 117, 116, 115>> }

\* The start path of a scan: the default root, the path as given, or the
\* path below the home directory when it starts with "~/"
start_path(path) ==
    IF ~path.some THEN DefaultRoot
    ELSE IF starts_with(path.val, s_tilde)
         THEN join(home_dir.val, SubSeq(path.val, 3, Len(path.val)))
         ELSE PathBufFrom(path.val)

\* filter_entry: the walk enters no directory whose name is in skip_dirs,
\* the start directory included
Entered(start, d) ==
    /\ IsPrefix(start, d)
    /\ \A n \in Len(start)..Len(d) : n >= 1 => d[n] \notin skip_dirs

\* The walk: the parents of the files named mix.exs in the directories entered
Walk(w, start) ==
    IF ~exists(w, start) THEN {}
    ELSE { d \in w.dirs : MixFile(d) \in w.files /\ Entered(start, d) }

scan_elixir_projects(w, path) ==
    LET Found(start, ps) == Ret(Did(w, Ev("scan", start, ps)), ps)
        From(start) == Found(start, sort(Walk(w, start)))
    IN  From(start_path(path))

----------------------------------------------------------------------------
(* Project resolver. *)

\* The display name of a project
name_of(p) == file_name(p).val

\* filter_ignored, were it to match the way ignore and unignore do
filter_ignored_substring(ignoredNames, ps) ==
    LET Keep(p) ==
            IF file_name(p).some
            THEN \A n \in ignoredNames : ~contains(to_lowercase(name_of(p)), to_lowercase(n))
            ELSE TRUE
    IN  SelectSeq(ps, Keep)

filter_ignored(ignoredNames, ps) ==
    LET Keep(p) == IF file_name(p).some THEN name_of(p) \notin ignoredNames ELSE TRUE
    IN  SelectSeq(ps, Keep)

\* get_elixir_projects, were a forced refresh to come before the path
get_elixir_projects_refresh_first(w, path, force_refresh) ==
    LET Scanned(ign, sc) == Ret(sc.w, filter_ignored(ign, sc.ret))
        ScanAndCache(ign, sc) ==
            Ret(save_projects_to_cache(sc.w, sc.ret).w, filter_ignored(ign, sc.ret))
        Cached(ign, lc) ==
            IF lc.ret.some
            THEN Ret(lc.w, filter_ignored(ign, lc.ret.val))
            ELSE ScanAndCache(ign, scan_elixir_projects(lc.w, None))
        Resolve(li) ==
            IF force_refresh
            THEN ScanAndCache(li.ret, scan_elixir_projects(li.w, None))
            ELSE IF path.some
            THEN Scanned(li.ret, scan_elixir_projects(li.w, path))
            ELSE Cached(li.ret, load_projects_from_cache(li.w))
    IN  Resolve(load_ignored_projects(w))

\* get_elixir_projects, were an empty cached set to count as no cache
get_elixir_projects_rescan_empty(w, path, force_refresh) ==
    LET Scanned(ign, sc) == Ret(sc.w, filter_ignored(ign, sc.ret))
        ScanAndCache(ign, sc) ==
            Ret(save_projects_to_cache(sc.w, sc.ret).w, filter_ignored(ign, sc.ret))
        Cached(ign, lc) ==
            IF lc.ret.some /\ lc.ret.val # <<>>
            THEN Ret(lc.w, filter_ignored(ign, lc.ret.val))
            ELSE ScanAndCache(ign, scan_elixir_projects(lc.w, None))
        Resolve(li) ==
            IF path.some
            THEN Scanned(li.ret, scan_elixir_projects(li.w, path))
            ELSE IF ~force_refresh
            THEN Cached(li.ret, load_projects_from_cache(li.w))
            ELSE ScanAndCache(li.ret, scan_elixir_projects(li.w, None))
    IN  Resolve(load_ignored_projects(w))

\* get_elixir_projects, were it to cache the set after ignore filtering
get_elixir_projects_cache_filtered(w, path, force_refresh) ==
    LET Scanned(ign, sc) == Ret(sc.w, filter_ignored(ign, sc.ret))
        ScanAndCache(ign, sc) ==
            Ret(save_projects_to_cache(sc.w, filter_ignored(ign, sc.ret)).w,
                filter_ignored(ign, sc.ret))
        Cached(ign, lc) ==
            IF lc.ret.some
            THEN Ret(lc.w, filter_ignored(ign, lc.ret.val))
            ELSE ScanAndCache(ign, scan_elixir_projects(lc.w, None))
        Resolve(li) ==
            IF path.some
            THEN Scanned(li.ret, scan_elixir_projects(li.w, path))
            ELSE IF ~force_refresh
            THEN Cached(li.ret, load_projects_from_cache(li.w))
            ELSE ScanAndCache(li.ret, scan_elixir_projects(li.w, None))
    IN  Resolve(load_ignored_projects(w))

get_elixir_projects(w, path, force_refresh) ==
    LET Scanned(ign, sc) == Ret(sc.w, filter_ignored(ign, sc.ret))
        ScanAndCache(ign, sc) ==
            Ret(save_projects_to_cache(sc.w, sc.ret).w, filter_ignored(ign, sc.ret))
        Cached(ign, lc) ==
            IF lc.ret.some
            THEN Ret(lc.w, filter_ignored(ign, lc.ret.val))
            ELSE ScanAndCache(ign, scan_elixir_projects(lc.w, None))
        Resolve(li) ==
            IF path.some
            THEN Scanned(li.ret, scan_elixir_projects(li.w, path))
            ELSE IF ~force_refresh
            THEN Cached(li.ret, load_projects_from_cache(li.w))
            ELSE ScanAndCache(li.ret, scan_elixir_projects(li.w, None))
    IN  Resolve(load_ignored_projects(w))

----------------------------------------------------------------------------
(* Handlers.  A CallToolResult is the format string of its text with what   *)
(* fills it: a number and the joined items.                                 *)

Text(fmt, n, items) == [fmt |-> fmt, n |-> n, items |-> items]

\* file_name().map(to_string).unwrap_or_else(|| display())
project_name(p) == IF file_name(p).some THEN name_of(p) ELSE display(p)

\* handle_refresh, were it to report an empty set the way handle_list does
handle_refresh_empty_message(w, ps) ==
    IF ps = <<>>
    THEN Ret(w, Text("No Elixir projects found", 0, <<>>))
    ELSE Ret(w, Text("Refreshed project cache. Found {} Elixir projects:\n{}",
                     Len(ps), [i \in 1..Len(ps) |-> display(ps[i])]))

handle_refresh(w, ps) ==
    Ret(w, Text("Refreshed project cache. Found {} Elixir projects:\n{}",
                Len(ps), [i \in 1..Len(ps) |-> display(ps[i])]))

\* handle_list, were it to go through an empty set as well
handle_list_unguarded(w, ps) ==
    Ret(w, Text("Found {} projects: {}",
                Len(ps), [i \in 1..Len(ps) |-> project_name(ps[i])]))

handle_list(w, ps) ==
    IF ps = <<>>
    THEN Ret(w, Text("No Elixir projects found", 0, <<>>))
    ELSE Ret(w, Text("Found {} projects: {}",
                     Len(ps), [i \in 1..Len(ps) |-> project_name(ps[i])]))

\* fs::remove_dir_all: it fails on a directory that is gone and on one the
\* process may not remove (denied), and then removes nothing
remove_dir_all(w, p, denied) ==
    IF p \notin w.dirs \/ p \in denied
    THEN Ret(Did(w, Ev("remove_dir_all_failed", p, <<>>)), FALSE)
    ELSE Ret(Did([w EXCEPT !.dirs = @ \ Below(p, @), !.files = @ \ Below(p, @)],
                 Ev("remove_dir_all", p, <<>>)), TRUE)

\* The status line of one project: (ok) stands for the check mark, (x) for
\* the cross
delete_line(p, ok) ==
    IF ok THEN [fmt |-> "(ok) Deleted {}", name |-> project_name(p)]
    ELSE [fmt |-> "(x) Failed to delete {}: {}", name |-> project_name(p)]

RECURSIVE delete_loop(_, _, _, _)
delete_loop(w, ps, denied, results) ==
    LET Removed(rm) ==
            delete_loop(rm.w, Tail(ps), denied, Append(results, delete_line(Head(ps), rm.ret)))
    IN  IF ps = <<>> THEN Ret(w, results)
        ELSE Removed(remove_dir_all(w, Head(ps), denied))

\* handle_delete, were it to run without a filter too
handle_delete_unguarded(w, ps, r, denied) ==
    LET Rescanned(results, sc) ==
            Ret(save_projects_to_cache(sc.w, sc.ret).w, Text("{}", 0, results))
        Deleted(lp) == Rescanned(lp.ret, scan_elixir_projects(lp.w, None))
    IN  IF ps = <<>>
        THEN Ret(w, Text("No matching projects found", 0, <<>>))
        ELSE Deleted(delete_loop(w, ps, denied, <<>>))

\* handle_delete, were it to scan the path of the request again
handle_delete_rescan_path(w, ps, r, denied) ==
    LET Rescanned(results, sc) ==
            Ret(save_projects_to_cache(sc.w, sc.ret).w, Text("{}", 0, results))
        Deleted(lp) == Rescanned(lp.ret, scan_elixir_projects(lp.w, r.path))
    IN  IF ~r.project.some
        THEN Ret(w, Text("Error: 'project' filter is required for delete action", 0, <<>>))
        ELSE IF ps = <<>>
        THEN Ret(w, Text("No matching projects found", 0, <<>>))
        ELSE Deleted(delete_loop(w, ps, denied, <<>>))

handle_delete(w, ps, r, denied) ==
    LET Rescanned(results, sc) ==
            Ret(save_projects_to_cache(sc.w, sc.ret).w, Text("{}", 0, results))
        Deleted(lp) == Rescanned(lp.ret, scan_elixir_projects(lp.w, None))
    IN  IF ~r.project.some
        THEN Ret(w, Text("Error: 'project' filter is required for delete action", 0, <<>>))
        ELSE IF ps = <<>>
        THEN Ret(w, Text("No matching projects found", 0, <<>>))
        ELSE Deleted(delete_loop(w, ps, denied, <<>>))

\* The loop of handle_ignore, were it to add every known project, matching or
\* not
RECURSIVE ignore_loop_unfiltered(_, _, _, _)
ignore_loop_unfiltered(ps, flt, ign, added) ==
    IF ps = <<>> THEN [ignored |-> ign, added |-> added]
    ELSE IF /\ file_name(Head(ps)).some
            /\ name_of(Head(ps)) \notin ign
         THEN ignore_loop_unfiltered(Tail(ps), flt, ign \cup {name_of(Head(ps))},
                                     Append(added, name_of(Head(ps))))
         ELSE ignore_loop_unfiltered(Tail(ps), flt, ign, added)

\* The loop of handle_ignore, were it to add a matching name again that is
\* ignored already
RECURSIVE ignore_loop_readd(_, _, _, _)
ignore_loop_readd(ps, flt, ign, added) ==
    IF ps = <<>> THEN [ignored |-> ign, added |-> added]
    ELSE IF /\ file_name(Head(ps)).some
            /\ contains(to_lowercase(name_of(Head(ps))), flt)
         THEN ignore_loop_readd(Tail(ps), flt, ign \cup {name_of(Head(ps))},
                                Append(added, name_of(Head(ps))))
         ELSE ignore_loop_readd(Tail(ps), flt, ign, added)

RECURSIVE ignore_loop(_, _, _, _)
ignore_loop(ps, flt, ign, added) ==
    IF ps = <<>> THEN [ignored |-> ign, added |-> added]
    ELSE IF /\ file_name(Head(ps)).some
            /\ contains(to_lowercase(name_of(Head(ps))), flt)
            /\ name_of(Head(ps)) \notin ign
         THEN ignore_loop(Tail(ps), flt, ign \cup {name_of(Head(ps))},
                          Append(added, name_of(Head(ps))))
         ELSE ignore_loop(Tail(ps), flt, ign, added)

\* handle_ignore, were it to take its candidates from a scan always
handle_ignore_scan_only(w, r) ==
    LET Listed(li) ==
            IF li.ret = {}
            THEN Ret(li.w, Text("No projects are currently ignored", 0, <<>>))
            ELSE Ret(li.w, Text("Ignored projects: {}", 0, sort_names(li.ret)))
        Added(w1, lp) ==
            IF lp.added = <<>>
            THEN Ret(w1, Text("No matching projects found to ignore", 0, <<>>))
            ELSE Ret(save_ignored_projects(w1, lp.ignored).w,
                     Text("Ignored: {}", 0, lp.added))
        Matched(ign, all) ==
            Added(all.w, ignore_loop(all.ret, to_lowercase(r.project.val), ign, <<>>))
        Known(ign, lc) == Matched(ign, scan_elixir_projects(lc.w, r.path))
        Loaded(li) == Known(li.ret, load_projects_from_cache(li.w))
    IN  IF ~r.project.some
        THEN Listed(load_ignored_projects(w))
        ELSE Loaded(load_ignored_projects(w))

handle_ignore(w, r) ==
    LET Listed(li) ==
            IF li.ret = {}
            THEN Ret(li.w, Text("No projects are currently ignored", 0, <<>>))
            ELSE Ret(li.w, Text("Ignored projects: {}", 0, sort_names(li.ret)))
        Added(w1, lp) ==
            IF lp.added = <<>>
            THEN Ret(w1, Text("No matching projects found to ignore", 0, <<>>))
            ELSE Ret(save_ignored_projects(w1, lp.ignored).w,
                     Text("Ignored: {}", 0, lp.added))
        Matched(ign, all) ==
            Added(all.w, ignore_loop(all.ret, to_lowercase(r.project.val), ign, <<>>))
        Known(ign, lc) ==
            IF lc.ret.some
            THEN Matched(ign, Ret(lc.w, lc.ret.val))
            ELSE Matched(ign, scan_elixir_projects(lc.w, r.path))
        Loaded(li) == Known(li.ret, load_projects_from_cache(li.w))
    IN  IF ~r.project.some
        THEN Listed(load_ignored_projects(w))
        ELSE Loaded(load_ignored_projects(w))

\* handle_unignore, were it to remove the entry equal to the filter only
handle_unignore_exact(w, r) ==
    LET Removed(li, to_remove) ==
            IF to_remove = {}
            THEN Ret(li.w, Text("No matching ignored projects found", 0, <<>>))
            ELSE Ret(save_ignored_projects(li.w, li.ret \ to_remove).w,
                     Text("Unignored: {}", 0, to_remove))
        Loaded(li, flt) ==
            Removed(li, {n \in li.ret : to_lowercase(n) = flt})
    IN  IF ~r.project.some
        THEN Ret(w, Text("Error: 'project' filter is required for unignore action", 0, <<>>))
        ELSE Loaded(load_ignored_projects(w), to_lowercase(r.project.val))

\* handle_unignore, were it to hand the failure of its write on to its
\* caller, as save_ignored_projects(&ignored)? would
handle_unignore_propagating(w, r) ==
    LET Saved(sv, to_remove) ==
            IF sv.ret THEN Ret(sv.w, Text("Unignored: {}", 0, to_remove))
            ELSE Ret(sv.w, Text("Err", 0, <<>>))
        Removed(li, to_remove) ==
            IF to_remove = {}
            THEN Ret(li.w, Text("No matching ignored projects found", 0, <<>>))
            ELSE Saved(save_ignored_projects(li.w, li.ret \ to_remove), to_remove)
        Loaded(li, flt) ==
            Removed(li, {n \in li.ret : contains(to_lowercase(n), flt)})
    IN  IF ~r.project.some
        THEN Ret(w, Text("Error: 'project' filter is required for unignore action", 0, <<>>))
        ELSE Loaded(load_ignored_projects(w), to_lowercase(r.project.val))

\* The removed names are listed in the iteration order of the HashSet, which
\* is no order the program chooses: the items are their set.
handle_unignore(w, r) ==
    LET Removed(li, to_remove) ==
            IF to_remove = {}
            THEN Ret(li.w, Text("No matching ignored projects found", 0, <<>>))
            ELSE Ret(save_ignored_projects(li.w, li.ret \ to_remove).w,
                     Text("Unignored: {}", 0, to_remove))
        Loaded(li, flt) ==
            Removed(li, {n \in li.ret : contains(to_lowercase(n), flt)})
    IN  IF ~r.project.some
        THEN Ret(w, Text("Error: 'project' filter is required for unignore action", 0, <<>>))
        ELSE Loaded(load_ignored_projects(w), to_lowercase(r.project.val))

----------------------------------------------------------------------------
(* External commands.  The Output of a command is what the handlers read of *)
(* it: whether it could be spawned at all, whether it exited with 0, and    *)
(* the bytes of its standard output and standard error.                     *)

s_failed     == <<102, 97, 105, 108, 101, 100>>
s_arrow      == <<45, 62>>
s_two_spaces == <<32, 32>>
s_Dependency == <<68, 101, 112, 101, 110, 100, 101, 110, 99, 121>>
s_Newer      == <<78, 101, 119, 101, 114, 32, 118, 101, 114, 115, 105, 111, 110, 115>>
s_ahead      == <<97, 104, 101, 97, 100>>
s_Already    == <<65, 108, 114, 101, 97, 100, 121, 32, 117, 112, 32, 116, 111, 32, 100, 97, 116, 101>>
s_Everything == <<69, 118, 101, 114, 121, 116, 104, 105, 110, 103, 32, 117, 112, 45, 116, 111, 45, 100, 97, 116, 101>>
s_up_to_date == <<40, 117, 112, 32, 116, 111, 32, 100, 97, 116, 101, 41>>
s_updated    == <<40, 117, 112, 100, 97, 116, 101, 100, 41>>
s_pushed     == <<40, 112, 117, 115, 104, 101, 100, 41>>

\* The text of the io::Error of a command that could not be spawned
s_spawn_error == <<78, 111, 32, 115, 117, 99, 104, 32, 102, 105, 108, 101, 32, 111, 114, 32, 100, 105, 114, 101, 99, 116, 111, 114, 121, 32, 40, 111, 115, 32, 101, 114, 114, 111, 114, 32, 50, 41>>

Output(spawned, success, stdout, stderr) ==
    [spawned |-> spawned, success |-> success, stdout |-> stdout, stderr |-> stderr]

\* The program is missing: Command::output() returns Err
SpawnError == Output(FALSE, FALSE, <<>>, <<>>)

\* Exit status 0, nothing printed
Succeeded == Output(TRUE, TRUE, <<>>, <<>>)

\* A non-zero exit status with two lines of standard error and a dependency
\* line on standard output
FailedLoud == Output(TRUE, FALSE, <<32, 32, 106, 97, 115, 111, 110, 32, 49, 46, 48, 32, 45, 62, 32, 49, 46, 52, 10>>, <<102, 97, 116, 97, 108, 58, 32, 110, 111, 32, 114, 101, 109, 111, 116, 101, 10, 104, 105, 110, 116, 58, 32, 97, 100, 100, 32, 111, 110, 101, 10>>)

\* A non-zero exit status, nothing printed
FailedSilent == Output(TRUE, FALSE, <<>>, <<>>)

\* Exit status 0 with a line on standard output that holds "ahead"
Reported == Output(TRUE, TRUE, <<35, 35, 32, 109, 97, 105, 110, 32, 91, 97, 104, 101, 97, 100, 32, 49, 93, 10>>, <<>>)

\* Exit status 0 with a line of changes on standard output
Changed == Output(TRUE, TRUE, <<32, 77, 32, 109, 105, 120, 46, 101, 120, 115, 10>>, <<>>)

\* Exit status 0 with "Already up to date." on standard output, as git pull
\* prints it, and the same on standard error
AlreadyOnStdout == Output(TRUE, TRUE, <<65, 108, 114, 101, 97, 100, 121, 32, 117, 112, 32, 116, 111, 32, 100, 97, 116, 101, 46, 10>>, <<>>)

AlreadyOnStderr == Output(TRUE, TRUE, <<>>, <<65, 108, 114, 101, 97, 100, 121, 32, 117, 112, 32, 116, 111, 32, 100, 97, 116, 101, 46, 10>>)

\* Exit status 0 with "Everything up-to-date" on standard error, as git push
\* prints it, and the same on standard output
EverythingOnStderr == Output(TRUE, TRUE, <<>>, <<69, 118, 101, 114, 121, 116, 104, 105, 110, 103, 32, 117, 112, 45, 116, 111, 45, 100, 97, 116, 101, 10>>)

EverythingOnStdout == Output(TRUE, TRUE, <<69, 118, 101, 114, 121, 116, 104, 105, 110, 103, 32, 117, 112, 45, 116, 111, 45, 100, 97, 116, 101, 10>>, <<>>)

\* Exit status 0 with the phrase "Newer versions" on standard output, without
\* and with a dependency line
NewerOnly == Output(TRUE, TRUE, <<78, 101, 119, 101, 114, 32, 118, 101, 114, 115, 105, 111, 110, 115, 32, 97, 118, 97, 105, 108, 97, 98, 108, 101, 10>>, <<>>)

NewerListed == Output(TRUE, TRUE, <<78, 101, 119, 101, 114, 32, 118, 101, 114, 115, 105, 111, 110, 115, 32, 97, 118, 97, 105, 108, 97, 98, 108, 101, 10, 32, 32, 106, 97, 115, 111, 110, 32, 49, 46, 48, 32, 45, 62, 32, 49, 46, 52, 10>>, <<>>)

Outputs == {SpawnError, Succeeded, FailedLoud, FailedSilent}

\* What the command of each operation can return
OutdatedOutputs == Outputs \cup {NewerOnly, NewerListed}

PullOutputs == Outputs \cup {AlreadyOnStdout, AlreadyOnStderr}

PushOutputs == Outputs \cup {EverythingOnStderr, EverythingOnStdout}

\* What the two probes of git_status can return
StatusOutputs == {SpawnError, Succeeded, Reported, Changed}

\* str::lines
RECURSIVE SplitLines(_, _)
SplitLines(s, cur) ==
    IF s = <<>> THEN (IF cur = <<>> THEN <<>> ELSE <<cur>>)
    ELSE IF Head(s) = 10 THEN <<cur>> \o SplitLines(Tail(s), <<>>)
    ELSE SplitLines(Tail(s), Append(cur, Head(s)))

lines(s) == SplitLines(s, <<>>)

\* str::trim().is_empty()
is_blank(s) == \A i \in 1..Len(s) : s[i] \in {9, 10, 11, 12, 13, 32}

\* Command::new(..).args(..).current_dir(project).output().await: the
\* command starts, and the handler goes on when it is done
output(w, project, command, o) ==
    Ret(Did(Did(w, Ev("command_start", project, command)),
            Ev("command_done", project, o)), o)

\* A status: (ok) stands for the check mark, (x) for the cross
Status(mark, text) == [mark |-> mark, text |-> text]

\* stderr.lines().next().unwrap_or("failed")
first_line_or_failed(stderr) ==
    IF lines(stderr) = <<>> THEN s_failed ELSE Head(lines(stderr))

update_deps_status(o) ==
    IF ~o.spawned THEN Status("(x)", s_spawn_error)
    ELSE IF o.success THEN Status("(ok)", <<>>)
    ELSE Status("(x)", first_line_or_failed(o.stderr))

RECURSIVE update_deps_loop(_, _, _, _)
update_deps_loop(w, ps, run, results) ==
    LET Ran(c) ==
            update_deps_loop(c.w, Tail(ps), Tail(run),
                Append(results, [status |-> update_deps_status(c.ret),
                                 project |-> display(Head(ps))]))
    IN  IF ps = <<>> THEN Ret(w, results)
        ELSE Ran(output(w, Head(ps), "mix deps.update --all", Head(run)))

handle_update_deps(w, ps, run) ==
    LET Done(lp) == Ret(lp.w, Text("Updated {} projects:\n{}", Len(ps), lp.ret))
    IN  IF ps = <<>>
        THEN Ret(w, Text("No Elixir projects found", 0, <<>>))
        ELSE Done(update_deps_loop(w, ps, run, <<>>))

\* The dependency lines of the standard output of mix hex.outdated
outdated_deps(stdout) ==
    LET Keep(line) ==
            \/ contains(line, s_arrow)
            \/ /\ starts_with(line, s_two_spaces)
               /\ ~is_blank(line)
               /\ ~contains(line, s_Dependency)
    IN  SelectSeq(lines(stdout), Keep)

\* outdated_step, were it to count a project only when it lists a dependency
outdated_step_uncounted(p, o, acc) ==
    IF ~o.spawned
    THEN [acc EXCEPT !.results =
            Append(@, [fmt |-> "\n(x) {} - error: {}", name |-> project_name(p),
                       n |-> 0, deps |-> <<>>])]
    ELSE IF ~o.success \/ contains(o.stdout, s_Newer)
    THEN IF outdated_deps(o.stdout) # <<>>
         THEN [results |-> Append(acc.results,
                    [fmt |-> "\n(pkg) {} ({} outdated):\n  {}", name |-> project_name(p),
                     n |-> Len(outdated_deps(o.stdout)), deps |-> outdated_deps(o.stdout)]),
               count |-> acc.count + 1]
         ELSE acc
    ELSE acc

\* What one project adds to the results of handle_outdated, and whether it
\* counts as a project with outdated dependencies
outdated_step(p, o, acc) ==
    IF ~o.spawned
    THEN [acc EXCEPT !.results =
            Append(@, [fmt |-> "\n(x) {} - error: {}", name |-> project_name(p),
                       n |-> 0, deps |-> <<>>])]
    ELSE IF ~o.success \/ contains(o.stdout, s_Newer)
    THEN IF outdated_deps(o.stdout) # <<>>
         THEN [results |-> Append(acc.results,
                    [fmt |-> "\n(pkg) {} ({} outdated):\n  {}", name |-> project_name(p),
                     n |-> Len(outdated_deps(o.stdout)), deps |-> outdated_deps(o.stdout)]),
               count |-> acc.count + 1]
         ELSE [acc EXCEPT !.count = @ + 1]
    ELSE acc

RECURSIVE outdated_loop(_, _, _, _)
outdated_loop(w, ps, run, acc) ==
    LET Ran(c) ==
            outdated_loop(c.w, Tail(ps), Tail(run), outdated_step(Head(ps), c.ret, acc))
    IN  IF ps = <<>> THEN Ret(w, acc)
        ELSE Ran(output(w, Head(ps), "mix hex.outdated", Head(run)))

handle_outdated(w, ps, run) ==
    LET Done(lp) ==
            IF lp.ret.count = 0
            THEN Ret(lp.w, Text("All {} projects are up to date!", Len(ps), <<>>))
            ELSE Ret(lp.w, Text("{}/{} projects have outdated dependencies:{}",
                                Len(ps), lp.ret))
    IN  IF ps = <<>>
        THEN Ret(w, Text("No Elixir projects found", 0, <<>>))
        ELSE Done(outdated_loop(w, ps, run, [results |-> <<>>, count |-> 0]))

git_pull_status(o) ==
    IF ~o.spawned THEN Status("(x)", s_spawn_error)
    ELSE IF o.success
    THEN (IF contains(o.stdout, s_Already)
          THEN Status("(ok)", s_up_to_date) ELSE Status("(ok)", s_updated))
    ELSE Status("(x)", first_line_or_failed(o.stderr))

\* The loop of handle_git_pull, were a failure to end the batch
RECURSIVE git_pull_loop_abort(_, _, _, _)
git_pull_loop_abort(w, ps, run, results) ==
    LET Ran(c) ==
            IF git_pull_status(c.ret).mark = "(x)"
            THEN Ret(c.w, Append(results, [name |-> project_name(Head(ps)),
                                           status |-> git_pull_status(c.ret)]))
            ELSE git_pull_loop_abort(c.w, Tail(ps), Tail(run),
                    Append(results, [name |-> project_name(Head(ps)),
                                     status |-> git_pull_status(c.ret)]))
    IN  IF ps = <<>> THEN Ret(w, results)
        ELSE Ran(output(w, Head(ps), "git pull", Head(run)))

RECURSIVE git_pull_loop(_, _, _, _)
git_pull_loop(w, ps, run, results) ==
    LET Ran(c) ==
            git_pull_loop(c.w, Tail(ps), Tail(run),
                Append(results, [name |-> project_name(Head(ps)),
                                 status |-> git_pull_status(c.ret)]))
    IN  IF ps = <<>> THEN Ret(w, results)
        ELSE Ran(output(w, Head(ps), "git pull", Head(run)))

handle_git_pull(w, ps, run) ==
    LET Done(lp) == Ret(lp.w, Text("Git pull on {} projects:\n{}", Len(ps), lp.ret))
    IN  IF ps = <<>>
        THEN Ret(w, Text("No Elixir projects found", 0, <<>>))
        ELSE Done(git_pull_loop(w, ps, run, <<>>))

git_push_status(o) ==
    IF ~o.spawned THEN Status("(x)", s_spawn_error)
    ELSE IF o.success
    THEN (IF contains(o.stderr, s_Everything)
          THEN Status("(ok)", s_up_to_date) ELSE Status("(ok)", s_pushed))
    ELSE Status("(x)", first_line_or_failed(o.stderr))

RECURSIVE git_push_loop(_, _, _, _)
git_push_loop(w, ps, run, results) ==
    LET Ran(c) ==
            git_push_loop(c.w, Tail(ps), Tail(run),
                Append(results, [name |-> project_name(Head(ps)),
                                 status |-> git_push_status(c.ret)]))
    IN  IF ps = <<>> THEN Ret(w, results)
        ELSE Ran(output(w, Head(ps), "git push", Head(run)))

handle_git_push(w, ps, run) ==
    LET Done(lp) == Ret(lp.w, Text("Git push on {} projects:\n{}", Len(ps), lp.ret))
    IN  IF ps = <<>>
        THEN Ret(w, Text("No Elixir projects found", 0, <<>>))
        ELSE Done(git_push_loop(w, ps, run, <<>>))

\* git_status_step, were every project without changes to count as clean
git_status_step_clean_if_unchanged(p, status_output, ahead_output, acc) ==
    LET Counted(has_changes, is_ahead) ==
            [dirty |-> IF has_changes THEN Append(acc.dirty, project_name(p)) ELSE acc.dirty,
             ahead |-> IF is_ahead THEN Append(acc.ahead, project_name(p)) ELSE acc.ahead,
             clean |-> IF ~has_changes THEN acc.clean + 1 ELSE acc.clean]
    IN  Counted(status_output.spawned /\ status_output.stdout # <<>>,
                ahead_output.spawned /\ contains(ahead_output.stdout, s_ahead))

\* What one project adds to the lists of handle_git_status, from its two
\* probes
git_status_step(p, status_output, ahead_output, acc) ==
    LET Counted(has_changes, is_ahead) ==
            [dirty |-> IF has_changes THEN Append(acc.dirty, project_name(p)) ELSE acc.dirty,
             ahead |-> IF is_ahead THEN Append(acc.ahead, project_name(p)) ELSE acc.ahead,
             clean |-> IF ~has_changes /\ ~is_ahead THEN acc.clean + 1 ELSE acc.clean]
    IN  Counted(status_output.spawned /\ status_output.stdout # <<>>,
                ahead_output.spawned /\ contains(ahead_output.stdout, s_ahead))

RECURSIVE git_status_loop(_, _, _, _)
git_status_loop(w, ps, run, acc) ==
    LET Second(c1, c2) ==
            git_status_loop(c2.w, Tail(ps), Tail(Tail(run)),
                            git_status_step(Head(ps), c1.ret, c2.ret, acc))
        First(c1) ==
            Second(c1, output(c1.w, Head(ps), "git status --branch --porcelain=v2",
                              Head(Tail(run))))
    IN  IF ps = <<>> THEN Ret(w, acc)
        ELSE First(output(w, Head(ps), "git status --porcelain", Head(run)))

\* handle_git_status, were it to go through an empty set as well
handle_git_status_unguarded(w, ps, run) ==
    LET Done(lp) ==
            IF lp.ret.dirty = <<>> /\ lp.ret.ahead = <<>>
            THEN Ret(lp.w, Text("(ok) All {} projects are clean and pushed!", Len(ps), <<>>))
            ELSE Ret(lp.w, Text("(!) Uncommitted changes ({}):\n  {}\n\n(^) Unpushed commits ({}):\n  {}\n\n(ok) {} projects clean",
                                lp.ret.clean, [dirty |-> lp.ret.dirty, ahead |-> lp.ret.ahead]))
    IN  Done(git_status_loop(w, ps, run, [dirty |-> <<>>, ahead |-> <<>>, clean |-> 0]))

\* The text is put together from the part on uncommitted changes, left out
\* when dirty is empty, the part on unpushed commits, left out when ahead is
\* empty, and the count of clean projects.
handle_git_status(w, ps, run) ==
    LET Done(lp) ==
            IF lp.ret.dirty = <<>> /\ lp.ret.ahead = <<>>
            THEN Ret(lp.w, Text("(ok) All {} projects are clean and pushed!", Len(ps), <<>>))
            ELSE Ret(lp.w, Text("(!) Uncommitted changes ({}):\n  {}\n\n(^) Unpushed commits ({}):\n  {}\n\n(ok) {} projects clean",
                                lp.ret.clean, [dirty |-> lp.ret.dirty, ahead |-> lp.ret.ahead]))
    IN  IF ps = <<>>
        THEN Ret(w, Text("No Elixir projects found", 0, <<>>))
        ELSE Done(git_status_loop(w, ps, run, [dirty |-> <<>>, ahead |-> <<>>, clean |-> 0]))

\* handle_unknown, were it to leave the action out of its text
handle_unknown_unnamed(w, r) ==
    Ret(w, Text("Unknown action '{}'. Use: list, update_deps, outdated, git_pull, git_push, git_status, refresh, delete, ignore, unignore",
                0, ""))

handle_unknown(w, r) ==
    Ret(w, Text("Unknown action '{}'. Use: list, update_deps, outdated, git_pull, git_push, git_status, refresh, delete, ignore, unignore",
                0, r.action))

----------------------------------------------------------------------------
(* Request dispatcher. *)

\* The name filter, were it to tell upper case from lower case
name_filter_case_sensitive(ps, project) ==
    LET Keep(p) == IF file_name(p).some
                   THEN contains(name_of(p), project.val)
                   ELSE FALSE
    IN  IF ~project.some THEN ps ELSE SelectSeq(ps, Keep)

\* The optional name filter of the dispatcher
name_filter(ps, project) ==
    LET Keep(p) == IF file_name(p).some
                   THEN contains(to_lowercase(name_of(p)), to_lowercase(project.val))
                   ELSE FALSE
    IN  IF ~project.some THEN ps ELSE SelectSeq(ps, Keep)

\* handle_elixir_projects, were it to resolve the project set for the
\* handlers that take it only, and after the check of the filter of delete
handle_elixir_projects_lazy(w, r, denied, run) ==
    LET Handled(g, ps, h) ==
            [w |-> h.w, resolved |-> [ret |-> g.ret, steps |-> Len(g.w.trace)],
             projects |-> ps, result |-> h.ret]
        Dispatch(g, ps) ==
            Handled(g, ps,
                CASE r.action = "refresh"  -> handle_refresh(g.w, ps)
                  [] r.action = "list"     -> handle_list(g.w, ps)
                  [] r.action = "update_deps" -> handle_update_deps(g.w, ps, run)
                  [] r.action = "outdated"    -> handle_outdated(g.w, ps, run)
                  [] r.action = "git_pull"    -> handle_git_pull(g.w, ps, run)
                  [] r.action = "git_push"    -> handle_git_push(g.w, ps, run)
                  [] r.action = "git_status"  -> handle_git_status(g.w, ps, run)
                  [] r.action = "delete"   -> handle_delete(g.w, ps, r, denied)
                  [] r.action = "ignore"   -> handle_ignore(g.w, r)
                  [] r.action = "unignore" -> handle_unignore(g.w, r)
                  [] OTHER                 -> handle_unknown(g.w, r))
        Resolved(g) == Dispatch(g, name_filter(g.ret, r.project))
    IN  IF \/ r.action \in {"refresh", "list", "update_deps", "outdated", "git_pull",
                            "git_push", "git_status"}
           \/ r.action = "delete" /\ r.project.some
        THEN Resolved(get_elixir_projects(w, r.path, r.action = "refresh"))
        ELSE Dispatch(Ret(w, <<>>), <<>>)

\* handle_elixir_projects, were refresh not to force the scan
handle_elixir_projects_no_force(w, r, denied, run) ==
    LET Handled(g, ps, h) ==
            [w |-> h.w, resolved |-> [ret |-> g.ret, steps |-> Len(g.w.trace)],
             projects |-> ps, result |-> h.ret]
        Dispatch(g, ps) ==
            Handled(g, ps,
                CASE r.action = "refresh"  -> handle_refresh(g.w, ps)
                  [] r.action = "list"     -> handle_list(g.w, ps)
                  [] r.action = "update_deps" -> handle_update_deps(g.w, ps, run)
                  [] r.action = "outdated"    -> handle_outdated(g.w, ps, run)
                  [] r.action = "git_pull"    -> handle_git_pull(g.w, ps, run)
                  [] r.action = "git_push"    -> handle_git_push(g.w, ps, run)
                  [] r.action = "git_status"  -> handle_git_status(g.w, ps, run)
                  [] r.action = "delete"   -> handle_delete(g.w, ps, r, denied)
                  [] r.action = "ignore"   -> handle_ignore(g.w, r)
                  [] r.action = "unignore" -> handle_unignore(g.w, r)
                  [] OTHER                 -> handle_unknown(g.w, r))
        Resolved(g) == Dispatch(g, name_filter(g.ret, r.project))
    IN  Resolved(get_elixir_projects(w, r.path, FALSE))

handle_elixir_projects(w, r, denied, run) ==
    LET Handled(g, ps, h) ==
            [w |-> h.w, resolved |-> [ret |-> g.ret, steps |-> Len(g.w.trace)],
             projects |-> ps, result |-> h.ret]
        Dispatch(g, ps) ==
            Handled(g, ps,
                CASE r.action = "refresh"  -> handle_refresh(g.w, ps)
                  [] r.action = "list"     -> handle_list(g.w, ps)
                  [] r.action = "update_deps" -> handle_update_deps(g.w, ps, run)
                  [] r.action = "outdated"    -> handle_outdated(g.w, ps, run)
                  [] r.action = "git_pull"    -> handle_git_pull(g.w, ps, run)
                  [] r.action = "git_push"    -> handle_git_push(g.w, ps, run)
                  [] r.action = "git_status"  -> handle_git_status(g.w, ps, run)
                  [] r.action = "delete"   -> handle_delete(g.w, ps, r, denied)
                  [] r.action = "ignore"   -> handle_ignore(g.w, r)
                  [] r.action = "unignore" -> handle_unignore(g.w, r)
                  [] OTHER                 -> handle_unknown(g.w, r))
        Resolved(g) == Dispatch(g, name_filter(g.ret, r.project))
    IN  Resolved(get_elixir_projects(w, r.path, r.action = "refresh"))

----------------------------------------------------------------------------
(* The state machine. *)

NoReq == [action |-> "", project |-> None, path |-> None]

NoResult == Text("", 0, <<>>)

NoResolved == [ret |-> <<>>, steps |-> 0]

NoCall == [fn |-> "", arg |-> <<>>, ret |-> None, wrote |-> FALSE,
           before |-> [exists |-> FALSE, lines |-> <<>>]]

NoHist == [call |-> NoCall, prev |-> NoCall]

NoBatch == [pc |-> "idle", req |-> NoReq, queue |-> <<>>, waiting |-> FALSE, outs |-> <<>>]

Instances == {1, 2}

NoProc == [pc |-> "idle", req |-> NoReq, loaded |-> {}, ignored |-> {}, result |-> NoResult]

NoInst == [proc |-> [i \in Instances |-> NoProc], log |-> <<>>]

Snapshot == [dirs |-> dirs, files |-> files, cache |-> cache, ignored |-> ignored]

NoSnapshot == [dirs |-> {}, files |-> {}, cache |-> [exists |-> FALSE, lines |-> <<>>],
               ignored |-> [exists |-> FALSE, lines |-> {}]]

Init ==
    /\ dirs = {}
    /\ files = {}
    /\ cache = [exists |-> FALSE, lines |-> <<>>]
    /\ ignored = [exists |-> FALSE, lines |-> {}]
    /\ writable = TRUE
    /\ full = FALSE
    /\ req = NoReq
    /\ pre = NoSnapshot
    /\ trace = <<>>
    /\ resolved = NoResolved
    /\ projects = <<>>
    /\ result = NoResult
    /\ hist = NoHist
    /\ inst = NoInst
    /\ past = <<>>
    /\ batch = NoBatch

\* One request, from its arrival to its result.  Requests are handled one at
\* a time: the next one arrives when the result of this one has been returned.
Request(action, project, path, denied, run) ==
    /\ req = NoReq
    /\ \E h \in {handle_elixir_projects(World,
                [action |-> action, project |-> project, path |-> path], denied, run)} :
        /\ dirs' = h.w.dirs
        /\ files' = h.w.files
        /\ cache' = h.w.cache
        /\ ignored' = h.w.ignored
        /\ UNCHANGED <<writable, full, hist, inst, past, batch>>
        /\ req' = [action |-> action, project |-> project, path |-> path]
        /\ pre' = Snapshot
        /\ trace' = h.w.trace
        /\ resolved' = h.resolved
        /\ projects' = h.projects
        /\ result' = h.result

Refresh ==
    /\ req = NoReq
    /\ \E project \in ProjectInputs, path \in PathInputs :
            Request("refresh", project, path, {}, <<>>)

List ==
    /\ req = NoReq
    /\ \E project \in ProjectInputs, path \in PathInputs :
            Request("list", project, path, {}, <<>>)

Delete ==
    /\ req = NoReq
    /\ \E project \in ProjectInputs, path \in PathInputs,
          denied \in SUBSET (dirs \cap ProjectDirs) :
            Request("delete", project, path, denied, <<>>)

Ignore ==
    /\ req = NoReq
    /\ \E project \in ProjectInputs, path \in PathInputs :
            Request("ignore", project, path, {}, <<>>)

Unignore ==
    /\ req = NoReq
    /\ \E project \in ProjectInputs, path \in PathInputs :
            Request("unignore", project, path, {}, <<>>)

Unknown ==
    /\ req = NoReq
    /\ \E project \in ProjectInputs, path \in PathInputs :
            Request("List", project, path, {}, <<>>)

\* The result reaches the caller
Return ==
    /\ req # NoReq
    /\ req' = NoReq
    /\ pre' = NoSnapshot
    /\ trace' = <<>>
    /\ resolved' = NoResolved
    /\ projects' = <<>>
    /\ result' = NoResult
    /\ UNCHANGED <<dirs, files, cache, ignored, writable, full, hist, inst, past, batch>>

\* What happens to the disk between two requests, and between two calls
Idle ==
    /\ req = NoReq
    /\ hist' = NoHist
    /\ UNCHANGED <<cache, ignored, writable, full, req, pre, trace, resolved, projects, result, inst, past, batch>>

\* Somebody creates a project: the directory, the directories above it, mix.exs
CreateProject == \E d \in ProjectDirs :
    /\ MixFile(d) \notin files
    /\ Cardinality((dirs \cup {d}) \cap ProjectDirs) <= MaxProjects
    /\ dirs' = dirs \cup {x \in DirUniverse : IsPrefix(x, d)}
    /\ files' = files \cup {MixFile(d)}
    /\ Idle

\* Somebody removes the mix.exs of a project
RemoveMixFile == \E d \in ProjectDirs :
    /\ MixFile(d) \in files
    /\ files' = files \ {MixFile(d)}
    /\ UNCHANGED dirs
    /\ Idle

\* Somebody removes a directory and what is below it
RemoveDir == \E d \in dirs :
    /\ dirs' = dirs \ Below(d, dirs)
    /\ files' = files \ Below(d, files)
    /\ Idle

Next ==
    \/ Refresh
    \/ List
    \/ Delete
    \/ Ignore
    \/ Unignore
    \/ Unknown
    \/ Return
    \/ CreateProject
    \/ RemoveMixFile
    \/ RemoveDir

Spec == Init /\ [][Next]_vars

----------------------------------------------------------------------------
(* The requests that run external commands.  The outputs of the commands of *)
(* a request are its inputs: run holds one output for every command the     *)
(* handler will start, in the order in which it starts them.                *)

\* The number of projects the handler of a request will be given
Filtered(project, path) ==
    Len(name_filter(get_elixir_projects(World, path, FALSE).ret, project))

\* A request whose handler starts perProject commands for every project
Batch(action, perProject, outs) ==
    /\ req = NoReq
    /\ \E project \in ProjectInputs, path \in PathInputs :
        \E n \in {Filtered(project, path)} :
            \E run \in [1..(perProject * n) -> outs] :
                Request(action, project, path, {}, run)

UpdateDeps ==
    /\ req = NoReq
    /\ Batch("update_deps", 1, Outputs)

Outdated ==
    /\ req = NoReq
    /\ Batch("outdated", 1, OutdatedOutputs)

GitPull ==
    /\ req = NoReq
    /\ Batch("git_pull", 1, PullOutputs)

GitPush ==
    /\ req = NoReq
    /\ Batch("git_push", 1, PushOutputs)

GitStatus ==
    /\ req = NoReq
    /\ Batch("git_status", 2, StatusOutputs)

NextBatch ==
    \/ UpdateDeps
    \/ Outdated
    \/ GitPull
    \/ GitPush
    \/ GitStatus
    \/ Delete
    \/ Return
    \/ CreateProject
    \/ RemoveMixFile
    \/ RemoveDir

SpecBatch == Init /\ [][NextBatch]_vars

----------------------------------------------------------------------------
(* The requests that write the records, on a disk that may refuse the      *)
(* writes.                                                                  *)

\* ~/.cache/steve becomes read-only, or writable again
WriteProtect ==
    /\ req = NoReq
    /\ writable' = ~writable
    /\ UNCHANGED <<dirs, files, cache, ignored, full, req, pre, trace, resolved, projects,
                   result, hist, inst, past, batch>>

\* The disk runs full, or room is made on it
FillDisk ==
    /\ req = NoReq
    /\ full' = ~full
    /\ UNCHANGED <<dirs, files, cache, ignored, writable, req, pre, trace, resolved, projects,
                   result, hist, inst, past, batch>>

NextFault ==
    \/ Refresh
    \/ List
    \/ Delete
    \/ Ignore
    \/ Unignore
    \/ Return
    \/ CreateProject
    \/ RemoveDir
    \/ WriteProtect
    \/ FillDisk

SpecFault == Init /\ [][NextFault]_vars

----------------------------------------------------------------------------
(* One request of any kind, made on any disk of a family of disks: every    *)
(* action, every filter and path, every output of the commands, with the   *)
(* writes succeeding or failing.                                            *)

\* The projects below the default root
DefaultProjects == {d \in ProjectDirs : IsPrefix(DefaultRoot, d)}

\* The cache records a request can find: none, or the projects of some scan
\* of the default root, which may be gone by now
CacheInputs ==
    {[exists |-> FALSE, lines |-> <<>>]}
        \cup { [exists |-> TRUE, lines |-> [i \in 1..Len(sort(S)) |-> display(sort(S)[i])]] :
                    S \in {T \in SUBSET DefaultProjects : Cardinality(T) <= 1} }

\* The ignore records a request can find
IgnoredInputs ==
    {[exists |-> FALSE, lines |-> {}], [exists |-> TRUE, lines |-> {s_Club}]}

InitAny ==
    /\ \E S \in {T \in SUBSET ProjectDirs : Cardinality(T) <= MaxProjects} :
        /\ dirs = {x \in DirUniverse : \E d \in S : IsPrefix(x, d)}
        /\ files = {MixFile(d) : d \in S}
    /\ cache \in CacheInputs
    /\ ignored \in IgnoredInputs
    /\ writable \in BOOLEAN
    /\ full \in BOOLEAN
    /\ req = NoReq
    /\ pre = NoSnapshot
    /\ trace = <<>>
    /\ resolved = NoResolved
    /\ projects = <<>>
    /\ result = NoResult
    /\ hist = NoHist
    /\ inst = NoInst
    /\ past = <<>>
    /\ batch = NoBatch

NextAny ==
    \/ Refresh
    \/ List
    \/ UpdateDeps
    \/ Outdated
    \/ GitPull
    \/ GitPush
    \/ GitStatus
    \/ Delete
    \/ Ignore
    \/ Unignore
    \/ Unknown

SpecAny == InitAny /\ [][NextAny]_vars

----------------------------------------------------------------------------
(* The cache functions called directly, on any sequence of paths. *)

\* A saved sequence holds at most this many paths.
MaxSaved == 2

RECURSIVE SeqsUpTo(_, _)
SeqsUpTo(S, n) ==
    IF n = 0 THEN {<<>>}
    ELSE LET shorter == SeqsUpTo(S, n - 1)
         IN  shorter \cup {Append(s, x) : s \in shorter, x \in S}

\* A call; before is the cache record as a load found it
Called(fn, arg, ret, wrote, before) ==
    [fn |-> fn, arg |-> arg, ret |-> ret, wrote |-> wrote, before |-> before]

Wrote(w) == \E i \in 1..Len(w.trace) : w.trace[i].op = "save_cache"

CallSave == \E ps \in SeqsUpTo(ProjectDirs, MaxSaved) :
    \E s \in {save_projects_to_cache(World, ps)} :
        /\ cache' = s.w.cache
        /\ hist' = [call |-> Called("save_projects_to_cache", ps, None, Wrote(s.w), NoCall.before),
                    prev |-> NoCall]
        /\ UNCHANGED <<dirs, files, ignored, writable, full, req, pre, trace, resolved, projects, result, inst, past, batch>>

CallLoad ==
    \E l \in {load_projects_from_cache(World)} :
        /\ cache' = l.w.cache
        /\ hist' = [call |-> Called("load_projects_from_cache", <<>>, l.ret, Wrote(l.w), cache),
                    prev |-> hist.call]
        /\ UNCHANGED <<dirs, files, ignored, writable, full, req, pre, trace, resolved, projects, result, inst, past, batch>>

NextCache ==
    \/ CallSave
    \/ CallLoad
    \/ CreateProject
    \/ RemoveMixFile
    \/ RemoveDir

SpecCache == Init /\ [][NextCache]_vars

----------------------------------------------------------------------------
(* The scanner called directly, on disks that have a project inside a       *)
(* project and directories of the names the walk skips.                     *)

s_deps == <<100, 101, 112, 115>>

\* The directories of these disks
ScanUniverse ==
    { DefaultRoot,
      DefaultRoot \o <<s_Club>>,
      DefaultRoot \o <<s_Club, s_moneyclub>>,
      DefaultRoot \o <<s_Club, s_deps>>,
      DefaultRoot \o <<s_Club, s_deps, s_oneiros>>,
      AltRoot,
      AltRoot \o <<s_deps>>,
      AltRoot \o <<s_deps, s_Club>> }

\* The paths a scan is given: none, an absolute one, one that starts with "~/"
ScanPaths ==
    { None,
      Some(display(AltRoot)),
      Some(display(AltRoot \o <<s_deps>>)),
      Some(display(AltRoot \o <<s_deps, s_Club>>)),
      Some(s_tilde \o s_src_flt \o s_slash \o s_Club) }

\* Somebody creates a directory, and the directories above it
MakeDir == \E d \in ScanUniverse :
    /\ d \notin dirs
    /\ dirs' = dirs \cup {x \in ScanUniverse : IsPrefix(x, d)}
    /\ UNCHANGED files
    /\ Idle

\* Somebody writes a mix.exs into a directory
MakeMixFile == \E d \in dirs :
    /\ MixFile(d) \notin files
    /\ files' = files \cup {MixFile(d)}
    /\ UNCHANGED dirs
    /\ Idle

\* Somebody removes the mix.exs of a directory
DropMixFile == \E d \in dirs :
    /\ MixFile(d) \in files
    /\ files' = files \ {MixFile(d)}
    /\ UNCHANGED dirs
    /\ Idle

CallScan == \E path \in ScanPaths :
    \E s \in {scan_elixir_projects(World, path)} :
        /\ hist' = [call |-> Called("scan_elixir_projects", <<path>>, Some(s.ret), Wrote(s.w),
                                    NoCall.before),
                    prev |-> NoCall]
        /\ cache' = s.w.cache
        /\ UNCHANGED <<dirs, files, ignored, writable, full, req, pre, trace, resolved, projects, result, inst, past, batch>>

NextScan ==
    \/ CallScan
    \/ MakeDir
    \/ MakeMixFile
    \/ DropMixFile
    \/ RemoveDir

SpecScan == Init /\ [][NextScan]_vars

----------------------------------------------------------------------------
(* Two instances of the tool on the same home directory.  Each handles one  *)
(* ignore or unignore request; the reads and the writes of the records are  *)
(* the steps, and the steps of the two instances come in any order.  A read *)
(* or a write of a record is one step.                                      *)

\* The filters of the two requests: "oney" (moneyclub), "oneiros", "CLUB"
RaceFilters == {Some(s_oney), Some(s_oneiros), Some(s_CLUB)}

\* The ignore records the instances can find
RaceIgnoredInputs ==
    IgnoredInputs \cup {[exists |-> TRUE, lines |-> {s_moneyclub, s_oneiros}]}

\* The cache records the instances can find: none, or one of a scan
RaceCacheInputs ==
    { [exists |-> FALSE, lines |-> <<>>],
      [exists |-> TRUE, lines |-> [i \in 1..Len(sort(DefaultProjects)) |->
                                        display(sort(DefaultProjects)[i])]] }

Logged(i, op, names) == [i |-> i, op |-> op, names |-> names]

\* handle_elixir_projects up to the match: the project set is resolved, which
\* can write the cache record, and the handler is entered
Arrive(i) ==
    /\ inst.proc[i].pc = "idle"
    /\ \E action \in {"ignore", "unignore"}, project \in RaceFilters :
        \E g \in {get_elixir_projects(World, None, FALSE)} :
            /\ cache' = g.w.cache
            /\ inst' = [inst EXCEPT !.proc[i] =
                            [NoProc EXCEPT !.pc = "arrived",
                                           !.req = [action |-> action, project |-> project,
                                                    path |-> None]]]
    /\ UNCHANGED <<dirs, files, ignored, writable, full, req, pre, trace, resolved, projects,
                   result, hist, past, batch>>

\* let mut ignored = load_ignored_projects(); handle_unignore goes on to take
\* the matching names out of its copy, which touches no record
unignore_loaded(p, names) ==
    LET flt == to_lowercase(p.req.project.val)
        Removed(to_remove) ==
            IF to_remove = {}
            THEN [p EXCEPT !.pc = "done", !.loaded = names, !.ignored = names,
                           !.result = Text("No matching ignored projects found", 0, <<>>)]
            ELSE [p EXCEPT !.pc = "matched", !.loaded = names,
                           !.ignored = names \ to_remove,
                           !.result = Text("Unignored: {}", 0, to_remove)]
    IN  Removed({n \in names : contains(to_lowercase(n), flt)})

ignore_loaded(p, names) == [p EXCEPT !.pc = "loaded", !.loaded = names, !.ignored = names]

Load(i) ==
    /\ inst.proc[i].pc = "arrived"
    /\ \E li \in {load_ignored_projects(World)} :
        inst' = [inst EXCEPT
                    !.proc[i] = IF @.req.action = "ignore"
                                THEN ignore_loaded(@, li.ret)
                                ELSE unignore_loaded(@, li.ret),
                    !.log = Append(@, Logged(i, "load", li.ret))]
    /\ UNCHANGED <<dirs, files, cache, ignored, writable, full, req, pre, trace, resolved,
                   projects, result, hist, past, batch>>

\* handle_ignore: the candidates from the cache record, which the load can
\* write, or from a scan; the matching names go into the copy
ignore_matched(p, all) ==
    LET Added(lp) ==
            IF lp.added = <<>>
            THEN [p EXCEPT !.pc = "done",
                           !.result = Text("No matching projects found to ignore", 0, <<>>)]
            ELSE [p EXCEPT !.pc = "matched", !.ignored = lp.ignored,
                           !.result = Text("Ignored: {}", 0, lp.added)]
    IN  Added(ignore_loop(all, to_lowercase(p.req.project.val), p.loaded, <<>>))

Match(i) ==
    /\ inst.proc[i].pc = "loaded"
    /\ \E lc \in {load_projects_from_cache(World)} :
        /\ cache' = lc.w.cache
        /\ inst' = [inst EXCEPT !.proc[i] =
                        ignore_matched(@, IF lc.ret.some THEN lc.ret.val
                                          ELSE scan_elixir_projects(lc.w, @.req.path).ret)]
    /\ UNCHANGED <<dirs, files, ignored, writable, full, req, pre, trace, resolved, projects,
                   result, hist, past, batch>>

\* The write, were it to read the record again and to apply to it the
\* changes this instance made to its copy
save_copy_merging(w, p) ==
    save_ignored_projects(w,
        ((IF w.ignored.exists THEN w.ignored.lines ELSE {}) \ (p.loaded \ p.ignored))
            \cup (p.ignored \ p.loaded))

\* let _ = save_ignored_projects(&ignored): the copy this instance holds
\* replaces the record
save_copy(w, p) == save_ignored_projects(w, p.ignored)

Save(i) ==
    /\ inst.proc[i].pc = "matched"
    /\ \E sv \in {save_copy(World, inst.proc[i])} :
        /\ ignored' = sv.w.ignored
        /\ inst' = [inst EXCEPT !.proc[i].pc = "done",
                                !.log = Append(@, Logged(i, "save", inst.proc[i].ignored))]
    /\ UNCHANGED <<dirs, files, cache, writable, full, req, pre, trace, resolved, projects,
                   result, hist, past, batch>>

InitRace ==
    /\ \E S \in {T \in SUBSET DefaultProjects : Cardinality(T) <= MaxProjects} :
        /\ dirs = {x \in DirUniverse : \E d \in S : IsPrefix(x, d)}
        /\ files = {MixFile(d) : d \in S}
    /\ cache \in RaceCacheInputs
    /\ ignored \in RaceIgnoredInputs
    /\ writable = TRUE
    /\ full = FALSE
    /\ req = NoReq
    /\ pre = NoSnapshot
    /\ trace = <<>>
    /\ resolved = NoResolved
    /\ projects = <<>>
    /\ result = NoResult
    /\ hist = NoHist
    /\ inst = NoInst
    /\ past = <<>>
    /\ batch = NoBatch

NextRace == \E i \in Instances :
    \/ Arrive(i)
    \/ Load(i)
    \/ Match(i)
    \/ Save(i)

SpecRace == InitRace /\ [][NextRace]_vars

----------------------------------------------------------------------------
(* Requests on disks where a project lies inside another one, as the apps   *)
(* of an umbrella project do, and where two projects have the same name.    *)

NestedDirs ==
    { DefaultRoot \o <<s_Club>>,
      DefaultRoot \o <<s_Club, s_moneyclub>>,
      DefaultRoot \o <<s_moneyclub>>,
      DefaultRoot \o <<s_moneyclub, s_Club>> }

\* The ignore records a request can find on these disks
NestedIgnoredInputs ==
    IgnoredInputs \cup {[exists |-> TRUE, lines |-> {s_moneyclub}]}

InitNested ==
    /\ \E D \in SUBSET NestedDirs : \E S \in SUBSET D :
        /\ dirs = {x \in NestedDirs \cup {DefaultRoot} : \E d \in D : IsPrefix(x, d)}
        /\ files = {MixFile(d) : d \in S}
    /\ cache = [exists |-> FALSE, lines |-> <<>>]
    /\ ignored \in NestedIgnoredInputs
    /\ writable = TRUE
    /\ full = FALSE
    /\ req = NoReq
    /\ pre = NoSnapshot
    /\ trace = <<>>
    /\ resolved = NoResolved
    /\ projects = <<>>
    /\ result = NoResult
    /\ hist = NoHist
    /\ inst = NoInst
    /\ past = <<>>
    /\ batch = NoBatch

NextNested ==
    \/ List
    \/ Ignore
    \/ Delete
    \/ Return

SpecNested == InitNested /\ [][NextNested]_vars

----------------------------------------------------------------------------
(* Sequences of list, ignore and unignore requests without a path, made by  *)
(* one instance on a disk that nothing else changes, every request kept.    *)

\* The names in an ignore record
Lines(rec) == IF rec.exists THEN rec.lines ELSE {}

Answered ==
    [req |-> req, result |-> result, projects |-> projects,
     before |-> Lines(pre.ignored), after |-> Lines(ignored),
     scanned |-> \E i \in 1..Len(trace) : trace[i].op = "scan"]

SeqFilters == {Some(s_CLUB), Some(s_oney)}

SeqList ==
    /\ req = NoReq /\ Len(past) < MaxPast
    /\ Request("list", None, None, {}, <<>>)

SeqIgnore ==
    /\ req = NoReq /\ Len(past) < MaxPast
    /\ \E project \in SeqFilters : Request("ignore", project, None, {}, <<>>)

SeqUnignore ==
    /\ req = NoReq /\ Len(past) < MaxPast
    /\ \E project \in SeqFilters : Request("unignore", project, None, {}, <<>>)

\* The result reaches the caller, and the request is kept
ReturnKept ==
    /\ req # NoReq
    /\ past' = Append(past, Answered)
    /\ req' = NoReq
    /\ pre' = NoSnapshot
    /\ trace' = <<>>
    /\ resolved' = NoResolved
    /\ projects' = <<>>
    /\ result' = NoResult
    /\ UNCHANGED <<dirs, files, cache, ignored, writable, full, hist, inst, batch>>

InitSeq ==
    /\ \E S \in {T \in SUBSET DefaultProjects : Cardinality(T) <= MaxProjects} :
        /\ dirs = {x \in DirUniverse : \E d \in S : IsPrefix(x, d)}
        /\ files = {MixFile(d) : d \in S}
    /\ cache = [exists |-> FALSE, lines |-> <<>>]
    /\ ignored \in IgnoredInputs
    /\ writable = TRUE
    /\ full = FALSE
    /\ req = NoReq
    /\ pre = NoSnapshot
    /\ trace = <<>>
    /\ resolved = NoResolved
    /\ projects = <<>>
    /\ result = NoResult
    /\ hist = NoHist
    /\ inst = NoInst
    /\ past = <<>>
    /\ batch = NoBatch

NextSeq ==
    \/ SeqList
    \/ SeqIgnore
    \/ SeqUnignore
    \/ ReturnKept

SpecSeq == InitSeq /\ [][NextSeq]_vars

----------------------------------------------------------------------------
(* One request with its commands run one by one.  The handler starts a      *)
(* command and waits for it; when the command is done the handler goes on   *)
(* to the next, and after the last it returns its report.  Nothing but the  *)
(* end of the command ends the wait.                                        *)

\* commands, were git_pull to fetch before it pulls
commands_fetch_first(action) ==
    CASE action = "update_deps" -> <<"mix deps.update --all">>
      [] action = "outdated"    -> <<"mix hex.outdated">>
      [] action = "git_pull"    -> <<"git fetch", "git pull">>
      [] action = "git_push"    -> <<"git push">>
      [] action = "git_status"  -> <<"git status --porcelain",
                                     "git status --branch --porcelain=v2">>
      [] OTHER                  -> <<>>

\* The commands a handler runs in every project of its set
commands(action) ==
    CASE action = "update_deps" -> <<"mix deps.update --all">>
      [] action = "outdated"    -> <<"mix hex.outdated">>
      [] action = "git_pull"    -> <<"git pull">>
      [] action = "git_push"    -> <<"git push">>
      [] action = "git_status"  -> <<"git status --porcelain",
                                     "git status --branch --porcelain=v2">>
      [] OTHER                  -> <<>>

\* The commands of a request in the order of the loop: project by project
RECURSIVE Invocations(_, _)
Invocations(cs, ps) ==
    IF ps = <<>> THEN <<>>
    ELSE [i \in 1..Len(cs) |-> [project |-> Head(ps), command |-> cs[i]]]
            \o Invocations(cs, Tail(ps))

RunActions ==
    {"refresh", "list", "update_deps", "outdated", "git_pull", "git_push", "git_status",
     "delete", "ignore", "unignore", "List"}

\* What a command that is done hands back
RunOutputs == {Succeeded, SpawnError}

\* A request arrives; its project set decides which commands it will run
Begin ==
    /\ batch.pc = "idle"
    /\ \E action \in RunActions, project \in ProjectInputs, path \in PathInputs :
        \E g \in {get_elixir_projects(World, path, action = "refresh")} :
            batch' = [pc |-> "running",
                      req |-> [action |-> action, project |-> project, path |-> path],
                      queue |-> Invocations(commands(action), name_filter(g.ret, project)),
                      waiting |-> FALSE, outs |-> <<>>]
    /\ UNCHANGED <<dirs, files, cache, ignored, writable, full, req, pre, trace, resolved,
                   projects, result, hist, inst, past>>

\* Command::new(..).output(): the next command is started
Invoke ==
    /\ batch.pc = "running"
    /\ ~batch.waiting
    /\ batch.queue # <<>>
    /\ batch' = [batch EXCEPT !.waiting = TRUE]
    /\ UNCHANGED <<dirs, files, cache, ignored, writable, full, req, pre, trace, resolved,
                   projects, result, hist, inst, past>>

\* .await returns: the command is done, or could not be started
Complete ==
    /\ batch.waiting
    /\ \E o \in RunOutputs :
        batch' = [batch EXCEPT !.waiting = FALSE, !.queue = Tail(@), !.outs = Append(@, o)]
    /\ UNCHANGED <<dirs, files, cache, ignored, writable, full, req, pre, trace, resolved,
                   projects, result, hist, inst, past>>

\* No command is left: the handler comes to its return
Reporting ==
    /\ batch.pc = "running"
    /\ ~batch.waiting
    /\ batch.queue = <<>>
    /\ batch' = [batch EXCEPT !.pc = "reported"]

\* The handler returns its report, made from the outputs of its commands
Report ==
    /\ Reporting
    /\ \E h \in {handle_elixir_projects(World, batch.req, {}, batch.outs)} :
        /\ dirs' = h.w.dirs
        /\ files' = h.w.files
        /\ cache' = h.w.cache
        /\ ignored' = h.w.ignored
        /\ req' = batch.req
        /\ pre' = Snapshot
        /\ trace' = h.w.trace
        /\ resolved' = h.resolved
        /\ projects' = h.projects
        /\ result' = h.result
    /\ UNCHANGED <<writable, full, hist, inst, past>>

InitRun ==
    /\ \E S \in {T \in SUBSET ProjectDirs : Cardinality(T) <= MaxProjects} :
        /\ dirs = {x \in DirUniverse : \E d \in S : IsPrefix(x, d)}
        /\ files = {MixFile(d) : d \in S}
    /\ cache = [exists |-> FALSE, lines |-> <<>>]
    /\ ignored \in IgnoredInputs
    /\ writable = TRUE
    /\ full = FALSE
    /\ req = NoReq
    /\ pre = NoSnapshot
    /\ trace = <<>>
    /\ resolved = NoResolved
    /\ projects = <<>>
    /\ result = NoResult
    /\ hist = NoHist
    /\ inst = NoInst
    /\ past = <<>>
    /\ batch = NoBatch

NextRun ==
    \/ Begin
    \/ Invoke
    \/ Complete
    \/ Report

\* The handler is not held up by anything but its commands, and a command
\* may hang
SpecRun ==
    /\ InitRun /\ [][NextRun]_vars
    /\ WF_batch(Invoke) /\ WF_batch(Reporting)

\* Every command is done at some time, and the handler is not held up by
\* anything else: it starts the next command and comes to its return
SpecRunFair ==
    /\ InitRun /\ [][NextRun]_vars
    /\ WF_batch(Invoke) /\ WF_batch(Complete) /\ WF_batch(Reporting)

----------------------------------------------------------------------------
(* What the claims are stated with. *)

\* The part of the trace that get_elixir_projects made, and the handler's
ResolutionTrace == SubSeq(trace, 1, resolved.steps)

HandlerTrace == SubSeq(trace, resolved.steps + 1, Len(trace))

Ops(tr) == [i \in 1..Len(tr) |-> tr[i].op]

Has(tr, op) == \E i \in 1..Len(tr) : tr[i].op = op

Displays(ps) == [i \in 1..Len(ps) |-> display(ps[i])]

\* The ignore set as the request found it
IgnoreSet == IF pre.ignored.exists THEN pre.ignored.lines ELSE {}

\* The project set resolution got from the cache or from the scan: what its
\* last successful load or scan returned
SourceSet ==
    LET tr   == ResolutionTrace
        from == { i \in 1..Len(tr) :
                    \/ tr[i].op = "scan"
                    \/ (tr[i].op = "load_cache" /\ tr[i].data.some) }
        last == CHOOSE i \in from : \A j \in from : j <= i
    IN  IF tr[last].op = "scan" THEN tr[last].data ELSE tr[last].data.val

\* The projects of ps whose final path segment is not, verbatim, in names
ExactlyKept(ps, names) ==
    LET Keep(p) == p[Len(p)] \notin names
    IN  SelectSeq(ps, Keep)

\* The projects of ps whose lowercase name contains the lowercase filter
Matching(ps, project) ==
    LET Keep(p) == contains(to_lowercase(p[Len(p)]), to_lowercase(project.val))
    IN  IF project.some THEN SelectSeq(ps, Keep) ELSE ps

\* A directory that is a project on the given disk
Qualifies(disk, p) == p \in disk.dirs /\ MixFile(p) \in disk.files

\* The projects a scan from start finds on the given disk
Discovered(disk, start) == sort(Walk(disk, start))

Now == [dirs |-> dirs, files |-> files]

\* The cached paths of a cache record, and those of them that qualify
Recorded(c) == [i \in 1..Len(c.lines) |-> PathBufFrom(c.lines[i])]

SelfHealed(disk, c) ==
    LET Keep(p) == Qualifies(disk, p)
    IN  SelectSeq(Recorded(c), Keep)

Attempted ==
    \E i \in 1..Len(HandlerTrace) :
        HandlerTrace[i].op \in {"remove_dir_all", "remove_dir_all_failed"}

----------------------------------------------------------------------------
(* The claims. *)

\* C1: resolution returns, in every branch, exactly the projects of the set
\* it got from the cache or the scan whose display name is not verbatim in
\* the ignore set, in the same order.
C1_ExactIgnoreFilter ==
    req # NoReq => resolved.ret = ExactlyKept(SourceSet, IgnoreSet)

\* C1 happens: a project is removed by its exact name while another one,
\* whose lowercase name contains the lowercase ignored name, is kept.
C1_Witness ==
    /\ req # NoReq
    /\ Len(resolved.ret) < Len(SourceSet)
    /\ \E i \in 1..Len(resolved.ret) : \E n \in IgnoreSet :
           /\ n # name_of(resolved.ret[i])
           /\ contains(to_lowercase(name_of(resolved.ret[i])), to_lowercase(n))

\* C2: delete with the project field absent or empty returns the
\* required-filter error and removes nothing.
C2_DeleteNeedsNonEmptyFilter ==
    (req.action = "delete" /\ (~req.project.some \/ req.project.val = <<>>))
        => /\ result.fmt = "Error: 'project' filter is required for delete action"
           /\ dirs = pre.dirs
           /\ files = pre.files

\* C3: a delete that attempted a removal ends by scanning the default root
\* and saving that scan, so that the cache record is the set of projects
\* then below the default root, whatever the path of the request and
\* whether the removals succeeded.
C3_DeleteRescansDefaultRoot ==
    (req.action = "delete" /\ Attempted)
        => /\ Len(trace) >= 2
           /\ trace[Len(trace) - 1].op = "scan"
           /\ trace[Len(trace) - 1].path = DefaultRoot
           /\ trace[Len(trace)].op = "save_cache"
           /\ trace[Len(trace)].data = trace[Len(trace) - 1].data
           /\ cache = [exists |-> TRUE, lines |-> Displays(Discovered(Now, DefaultRoot))]

\* C3 happens: a delete with a path override whose removals all failed
\* wrote the cache record.
C3_Witness ==
    /\ req.action = "delete"
    /\ req.path.some
    /\ Attempted
    /\ ~Has(trace, "remove_dir_all")
    /\ cache # pre.cache

\* C4: a load that follows a save of paths that all exist and contain
\* mix.exs returns the saved sequence, in order, and does not write.
C4_CacheRoundTrip ==
    ( /\ hist.call.fn = "load_projects_from_cache"
      /\ hist.prev.fn = "save_projects_to_cache"
      /\ \A i \in 1..Len(hist.prev.arg) : Qualifies(Now, hist.prev.arg[i]) )
        => /\ hist.call.ret = Some(hist.prev.arg)
           /\ ~hist.call.wrote
           /\ cache = hist.call.before

\* C4 happens: two paths saved out of order come back as saved.
C4_Witness ==
    /\ hist.call.fn = "load_projects_from_cache"
    /\ hist.prev.fn = "save_projects_to_cache"
    /\ Len(hist.prev.arg) = 2
    /\ PathLess(hist.prev.arg[2], hist.prev.arg[1])
    /\ \A i \in 1..Len(hist.prev.arg) : Qualifies(Now, hist.prev.arg[i])
    /\ hist.call.ret = Some(hist.prev.arg)

\* C5: a load returns None without a cache record; with one it returns the
\* recorded paths that exist and contain mix.exs, in recorded order, and
\* writes the record, pruned to them, exactly when it dropped an entry.  A
\* second load returns the same and writes nothing.
C5_SelfHealingLoad ==
    hist.call.fn = "load_projects_from_cache"
        => /\ ~hist.call.before.exists
                => (hist.call.ret = None /\ ~hist.call.wrote /\ cache = hist.call.before)
           /\ hist.call.before.exists
                => /\ hist.call.ret = Some(SelfHealed(Now, hist.call.before))
                   /\ hist.call.wrote
                        <=> Len(hist.call.ret.val) < Len(hist.call.before.lines)
                   /\ cache = IF hist.call.wrote
                              THEN [exists |-> TRUE, lines |-> Displays(hist.call.ret.val)]
                              ELSE hist.call.before
           /\ hist.prev.fn = "load_projects_from_cache"
                => (hist.call.ret = hist.prev.ret /\ ~hist.call.wrote)

\* C5 happens: a load dropped an entry and kept another, and a second load
\* followed it.
C5_Witness ==
    /\ hist.call.fn = "load_projects_from_cache"
    /\ hist.prev.fn = "load_projects_from_cache"
    /\ hist.prev.wrote
    /\ hist.prev.ret.val # <<>>
    /\ hist.call.ret = hist.prev.ret

\* C6: with a path override resolution loads the ignore set and scans that
\* path, and does nothing else: it neither loads nor saves the cache record,
\* forced or not; it returns the scan, ignore filtered.
C6_PathOverrideBypassesCache ==
    (req # NoReq /\ req.path.some)
        => /\ Ops(ResolutionTrace) = <<"load_ignored", "scan">>
           /\ ResolutionTrace[2].path = PathBufFrom(req.path.val)
           /\ ResolutionTrace[2].data = Discovered(pre, PathBufFrom(req.path.val))
           /\ resolved.ret = ExactlyKept(ResolutionTrace[2].data, IgnoreSet)

\* C6 happens: a refresh with a path override found projects and left the
\* existing cache record as it was.
C6_Witness ==
    /\ req.action = "refresh"
    /\ req.path.some
    /\ pre.cache.exists
    /\ resolved.ret # <<>>
    /\ cache = pre.cache
    /\ pre.cache.lines # Displays(ResolutionTrace[2].data)

\* C7: without path override and without force, an existing cache record is
\* the source: resolution returns its entries that still qualify, ignore
\* filtered, and scans nothing.
C7_CacheHit ==
    (req # NoReq /\ ~req.path.some /\ req.action # "refresh" /\ pre.cache.exists)
        => /\ ~Has(ResolutionTrace, "scan")
           /\ resolved.ret = ExactlyKept(SelfHealed(pre, pre.cache), IgnoreSet)

\* C7 happens: the cache record held a stale entry and lacked a project of
\* the default root, and a project came out.
C7_Witness ==
    /\ req # NoReq /\ ~req.path.some /\ req.action # "refresh" /\ pre.cache.exists
    /\ Len(SelfHealed(pre, pre.cache)) < Len(pre.cache.lines)
    /\ resolved.ret # <<>>
    /\ Discovered(pre, DefaultRoot) # SelfHealed(pre, pre.cache)

\* C8: without path override, forced or without a cache record, resolution
\* scans the default root, saves the whole scan (ignored projects too) and
\* returns the scan, ignore filtered.
C8_ScanAndCache ==
    (req # NoReq /\ ~req.path.some /\ (req.action = "refresh" \/ ~pre.cache.exists))
        => LET tr == ResolutionTrace
               n  == Len(tr)
           IN  /\ Ops(tr) \in { <<"load_ignored", "scan", "save_cache">>,
                                <<"load_ignored", "load_cache", "scan", "save_cache">> }
               /\ tr[n - 1].path = DefaultRoot
               /\ tr[n - 1].data = Discovered(pre, DefaultRoot)
               /\ tr[n].data = tr[n - 1].data
               /\ resolved.ret = ExactlyKept(tr[n - 1].data, IgnoreSet)
               /\ req.action # "delete"
                    => cache = [exists |-> TRUE, lines |-> Displays(tr[n - 1].data)]

\* C8 happens: a scan found an ignored project, which went into the cache
\* record and not into the result.
C8_Witness ==
    /\ req # NoReq /\ ~req.path.some /\ ~pre.cache.exists
    /\ Len(resolved.ret) < Len(SourceSet)
    /\ resolved.ret # <<>>
    /\ cache.exists
    /\ cache.lines = Displays(SourceSet)

\* C9, as claimed: every refresh, whatever its path, scans the default root
\* and overwrites the cache record with the scan.
C9_RefreshAlwaysRescansDefaultRoot ==
    req.action = "refresh"
        => \E i \in 1..Len(trace) :
               /\ trace[i].op = "scan"
               /\ trace[i].path = DefaultRoot
               /\ i < Len(trace)
               /\ trace[i + 1].op = "save_cache"
               /\ trace[i + 1].data = trace[i].data

\* C9, amended: a refresh without path override scans the default root and
\* overwrites the cache record with the scan, whatever its project field; a
\* refresh with a path override scans that path and leaves the cache record
\* as it was.
C9_RefreshRescansWithoutPath ==
    req.action = "refresh"
        => IF req.path.some
           THEN /\ Ops(trace) = <<"load_ignored", "scan">>
                /\ trace[2].path = PathBufFrom(req.path.val)
                /\ cache = pre.cache
           ELSE /\ Ops(trace) = <<"load_ignored", "scan", "save_cache">>
                /\ trace[2].path = DefaultRoot
                /\ trace[2].data = Discovered(pre, DefaultRoot)
                /\ trace[3].data = trace[2].data
                /\ cache = [exists |-> TRUE, lines |-> Displays(trace[2].data)]

\* C9 happens: a refresh with a project filter and no path replaced an
\* existing cache record by a different one.
C9_Witness ==
    /\ req.action = "refresh"
    /\ ~req.path.some
    /\ req.project.some
    /\ pre.cache.exists
    /\ cache # pre.cache

\* C10: the report of refresh lists, as full paths, the projects of the
\* source set whose name is not in the ignore set and matches the name
\* filter, with their number, which may be 0: there is no empty-set message.
C10_RefreshReport ==
    req.action = "refresh"
        => /\ projects = Matching(ExactlyKept(SourceSet, IgnoreSet), req.project)
           /\ result.fmt = "Refreshed project cache. Found {} Elixir projects:\n{}"
           /\ result.n = Len(projects)
           /\ result.items = Displays(projects)

\* C10 happens: a refresh without name filter found projects, all of them
\* ignored, and reported 0.
C10_Witness ==
    /\ req.action = "refresh"
    /\ ~req.project.some
    /\ SourceSet # <<>>
    /\ result.n = 0

----------------------------------------------------------------------------
(* The ignore list. *)

Names(ps) == {ps[i][Len(ps[i])] : i \in 1..Len(ps)}

\* The candidates of an ignore request: the cache record as the request found
\* it, less its entries that no longer qualify, or else the scan from the
\* path of the request
Candidates ==
    IF pre.cache.exists THEN SelfHealed(pre, pre.cache)
    ELSE Discovered(pre, start_path(req.path))

\* The names an ignore request has to add, and those an unignore request has
\* to remove
ToIgnore == Names(Matching(Candidates, req.project)) \ IgnoreSet

ToUnignore ==
    {n \in IgnoreSet : contains(to_lowercase(n), to_lowercase(req.project.val))}

Commands == {"command_start", "command_done"}

Removals == {"remove_dir_all", "remove_dir_all_failed"}

\* C11: ignore with a filter adds exactly the names of the candidates that
\* match the filter and are not ignored yet, keeps every entry there was,
\* writes the enlarged set and reports the added names; the candidates are
\* the self-healed cache where a cache record exists, also with a path
\* override, and else the scan of the override or default path.
C11_IgnoreAddsMatchingCandidates ==
    (req.action = "ignore" /\ req.project.some)
        => IF ToIgnore = {}
           THEN /\ ignored = pre.ignored
                /\ result.fmt = "No matching projects found to ignore"
           ELSE /\ ignored = [exists |-> TRUE, lines |-> IgnoreSet \cup ToIgnore]
                /\ result.fmt = "Ignored: {}"
                /\ Range(result.items) = ToIgnore
                /\ Len(result.items) = Cardinality(ToIgnore)

\* C11 happens: with a path override and a cache record that differs from
\* the scan of that path, a name is added next to an entry that stays, and a
\* candidate that does not match is left out.
C11_Witness ==
    /\ req.action = "ignore" /\ req.project.some /\ req.path.some
    /\ pre.cache.exists
    /\ Names(Candidates) # Names(Discovered(pre, start_path(req.path)))
    /\ ToIgnore # {}
    /\ IgnoreSet # {}
    /\ Names(Candidates) \ (IgnoreSet \cup ToIgnore) # {}

\* C12 as stated: ignore "oney" with moneyclub and oneiros known and nothing
\* ignored adds both names.
C12_OneyAddsBoth ==
    (/\ req.action = "ignore" /\ req.project = Some(s_oney)
     /\ Names(Candidates) = {s_moneyclub, s_oneiros}
     /\ IgnoreSet = {})
        => {s_moneyclub, s_oneiros} \subseteq ignored.lines

\* C12: ignore "oney" with moneyclub and oneiros known and nothing ignored
\* adds moneyclub only, "oney" being no substring of "oneiros".
C12_OneyAddsMoneyclubOnly ==
    (/\ req.action = "ignore" /\ req.project = Some(s_oney)
     /\ Names(Candidates) = {s_moneyclub, s_oneiros}
     /\ IgnoreSet = {})
        => /\ ignored = [exists |-> TRUE, lines |-> {s_moneyclub}]
           /\ result = Text("Ignored: {}", 0, <<s_moneyclub>>)

\* C12 happens
C12_Witness ==
    /\ req.action = "ignore" /\ req.project = Some(s_oney)
    /\ Names(Candidates) = {s_moneyclub, s_oneiros}
    /\ IgnoreSet = {}
    /\ s_moneyclub \in ignored.lines

\* C13: after an ignore with a filter, the same request made again at once
\* adds nothing: it answers that no matching project was found, writes no
\* ignore record and leaves the ignore set as the first one left it.
C13_IgnoreIdempotent ==
    LET Second(h) ==
            /\ h.result = Text("No matching projects found to ignore", 0, <<>>)
            /\ ~Has(h.w.trace, "save_ignored")
            /\ h.w.ignored = ignored
    IN  (req.action = "ignore" /\ req.project.some)
            => Second(handle_elixir_projects(World, req, {}, <<>>))

\* C13 happens: the first request added a name.
C13_Witness ==
    /\ req.action = "ignore" /\ req.project.some
    /\ result.fmt = "Ignored: {}"
    /\ ignored # pre.ignored
    /\ handle_elixir_projects(World, req, {}, <<>>).result.fmt
            = "No matching projects found to ignore"

\* C14: unignore with a filter removes exactly the entries whose lowercase
\* form contains the lowercase filter, keeps the others and writes the set;
\* with no such entry it answers, as a normal text, that no matching ignored
\* project was found and writes nothing.
C14_UnignoreRemovesMatchingEntries ==
    (req.action = "unignore" /\ req.project.some)
        => IF ToUnignore = {}
           THEN /\ result = Text("No matching ignored projects found", 0, <<>>)
                /\ ignored = pre.ignored
                /\ ~Has(trace, "save_ignored")
           ELSE /\ ignored = [exists |-> TRUE, lines |-> IgnoreSet \ ToUnignore]
                /\ result = Text("Unignored: {}", 0, ToUnignore)

\* C14 happens: an entry is removed whose project is gone, one that matches
\* the filter without being equal to it, and another entry stays.
C14_Witness ==
    /\ req.action = "unignore" /\ req.project.some
    /\ \E n \in ToUnignore :
        /\ to_lowercase(n) # to_lowercase(req.project.val)
        /\ \A d \in pre.dirs : d[Len(d)] # n
    /\ IgnoreSet \ ToUnignore # {}
    /\ ignored.lines = IgnoreSet \ ToUnignore

\* C15: delete and unignore without the project field answer with their
\* required-filter message, remove no directory and no file, run no command
\* and leave the ignore record as it was.
C15_MissingFilterAborts ==
    (req.action \in {"delete", "unignore"} /\ ~req.project.some)
        => /\ result.fmt = (IF req.action = "delete"
                            THEN "Error: 'project' filter is required for delete action"
                            ELSE "Error: 'project' filter is required for unignore action")
           /\ dirs = pre.dirs
           /\ files = pre.files
           /\ ignored = pre.ignored
           /\ \A i \in 1..Len(trace) : trace[i].op \notin Commands \cup Removals

\* C15 happens: a delete without the project field, with projects resolved
\* and a name ignored.
C15_Witness ==
    /\ req.action = "delete" /\ ~req.project.some
    /\ projects # <<>>
    /\ IgnoreSet # {}
    /\ result.fmt = "Error: 'project' filter is required for delete action"

----------------------------------------------------------------------------
(* The batch operations. *)

BatchActions == {"update_deps", "outdated", "git_pull", "git_push", "git_status"}

\* The commands the handler started and the outputs it got, in order
Started == SelectSeq(HandlerTrace, LAMBDA e : e.op = "command_start")

Done == SelectSeq(HandlerTrace, LAMBDA e : e.op = "command_done")

\* The number of commands a handler runs for one project
PerProject == IF req.action = "git_status" THEN 2 ELSE 1

\* The first line of a text that is not empty
FirstLine(text) ==
    LET ends == {i \in 1..Len(text) : text[i] = 10}
    IN  IF ends = {} THEN text
        ELSE SubSeq(text, 1, (CHOOSE i \in ends : \A j \in ends : i <= j) - 1)

\* The project a status line of the report is about
LineProject(line) ==
    IF req.action = "update_deps" THEN line.project ELSE line.name

LineOf(p) == IF req.action = "update_deps" THEN display(p) ELSE p[Len(p)]

\* a is b with some of its elements left out
RECURSIVE Subsequence(_, _)
Subsequence(a, b) ==
    IF a = <<>> THEN TRUE
    ELSE IF b = <<>> THEN FALSE
    ELSE IF Head(a) = Head(b) THEN Subsequence(Tail(a), Tail(b))
    ELSE Subsequence(a, Tail(b))

\* C16: with an empty filtered project set the five command operations
\* answer "No Elixir projects found" and a delete with a filter answers "No
\* matching projects found", and no command runs and nothing is removed; a
\* delete without filter answers with its required-filter error.
C16_EmptySetMessages ==
    /\ (req.action \in BatchActions /\ projects = <<>>)
            => /\ result = Text("No Elixir projects found", 0, <<>>)
               /\ HandlerTrace = <<>>
    /\ (req.action = "delete" /\ req.project.some /\ projects = <<>>)
            => /\ result = Text("No matching projects found", 0, <<>>)
               /\ HandlerTrace = <<>>
               /\ dirs = pre.dirs /\ files = pre.files
    /\ (req.action = "delete" /\ ~req.project.some)
            => result = Text("Error: 'project' filter is required for delete action", 0, <<>>)

\* C16 happens: git_status with projects resolved that the name filter all
\* leaves out.
C16_Witness ==
    /\ req.action = "git_status"
    /\ resolved.ret # <<>>
    /\ projects = <<>>
    /\ result.fmt = "No Elixir projects found"

\* C17: update_deps, git_pull, git_push and delete over a project set that
\* is not empty report one status line for every project of the set, in the
\* order of the set, whatever became of the projects before; the line of a
\* command that exited with a non-zero status is a cross with the first line
\* of its standard error, or with "failed" when that is empty.
C17_FailureDoesNotAbort ==
    /\ (req.action \in {"update_deps", "git_pull", "git_push"} /\ projects # <<>>)
            => /\ Len(result.items) = Len(projects)
               /\ Len(Done) = Len(projects)
               /\ \A i \in 1..Len(projects) :
                    /\ LineProject(result.items[i]) = LineOf(projects[i])
                    /\ (Done[i].data.spawned /\ ~Done[i].data.success)
                        => result.items[i].status =
                            Status("(x)", IF Done[i].data.stderr = <<>> THEN s_failed
                                          ELSE FirstLine(Done[i].data.stderr))
    /\ (req.action = "delete" /\ req.project.some /\ projects # <<>>)
            => /\ Len(result.items) = Len(projects)
               /\ \A i \in 1..Len(projects) :
                    result.items[i].name = LineOf(projects[i])

\* C17 happens: the command of the first of two projects fails, with text
\* on its standard error, and the second one is run and succeeds.
C17_Witness ==
    /\ req.action = "git_pull"
    /\ Len(projects) = 2
    /\ Len(Done) = 2
    /\ Done[1].data = FailedLoud
    /\ Done[2].data = Succeeded
    /\ result.items[1].status.mark = "(x)"
    /\ result.items[2].status.mark = "(ok)"

\* The projects of which a command could not be spawned
NotSpawned ==
    {i \in 1..Len(projects) :
        \E k \in 1..Len(Done) :
            /\ k \in ((i - 1) * PerProject + 1)..(i * PerProject)
            /\ ~Done[k].data.spawned}

\* The names the report gives with a cross.  The text of git_status has no
\* line with a cross in it.
Crossed ==
    CASE req.action \in {"update_deps", "git_pull", "git_push"} ->
            {LineProject(result.items[i]) : i \in {k \in 1..Len(result.items) :
                                                    result.items[k].status.mark = "(x)"}}
      [] req.action = "outdated" /\ result.fmt = "{}/{} projects have outdated dependencies:{}" ->
            {result.items.results[i].name : i \in {k \in 1..Len(result.items.results) :
                        result.items.results[k].fmt = "\n(x) {} - error: {}"}}
      [] OTHER -> {}

\* C18: in each of the five command operations the report has a line with a
\* cross for every project whose command could not be spawned.
C18_SpawnErrorReported ==
    (req.action \in BatchActions /\ projects # <<>>)
        => \A i \in NotSpawned : LineOf(projects[i]) \in Crossed

\* C19: the commands of a request run one after the other, each done before
\* the next is started, project by project in ascending order of the paths,
\* both probes of git_status for one project before the first for the next,
\* and the lines of the report follow that order.
C19_SequentialInPathOrder ==
    (req.action \in BatchActions /\ projects # <<>>)
        => /\ \A i \in 1..(Len(projects) - 1) : PathLess(projects[i], projects[i + 1])
           /\ Len(HandlerTrace) = 2 * PerProject * Len(projects)
           /\ \A k \in 1..(PerProject * Len(projects)) :
                /\ HandlerTrace[2 * k - 1].op = "command_start"
                /\ HandlerTrace[2 * k].op = "command_done"
                /\ HandlerTrace[2 * k - 1].path = projects[(k + PerProject - 1) \div PerProject]
                /\ HandlerTrace[2 * k].path = projects[(k + PerProject - 1) \div PerProject]
           /\ CASE req.action \in {"update_deps", "git_pull", "git_push"} ->
                    [i \in 1..Len(result.items) |-> LineProject(result.items[i])]
                        = [i \in 1..Len(projects) |-> LineOf(projects[i])]
                [] req.action = "outdated" ->
                    \/ result.items = <<>>
                    \/ Subsequence([i \in 1..Len(result.items.results) |-> result.items.results[i].name],
                                   [i \in 1..Len(projects) |-> LineOf(projects[i])])
                [] req.action = "git_status" ->
                    \/ result.items = <<>>
                    \/ /\ Subsequence(result.items.dirty,
                                      [i \in 1..Len(projects) |-> LineOf(projects[i])])
                       /\ Subsequence(result.items.ahead,
                                      [i \in 1..Len(projects) |-> LineOf(projects[i])])

\* C19 happens: git_status probes two projects, finds both with changes and
\* lists them in the order of their paths.
C19_Witness ==
    /\ req.action = "git_status"
    /\ Len(projects) = 2
    /\ Len(HandlerTrace) = 8
    /\ result.items # <<>>
    /\ Len(result.items.dirty) = 2

----------------------------------------------------------------------------
(* Writes that fail. *)

\* The disk and the records as the request found them, with every write
\* succeeding
Unhindered ==
    [dirs |-> pre.dirs, files |-> pre.files, cache |-> pre.cache, ignored |-> pre.ignored,
     writable |-> TRUE, full |-> FALSE, trace |-> <<>>]

\* The directories the request could not remove, and the outputs its
\* commands returned
Denied == {trace[i].path : i \in {k \in 1..Len(trace) : trace[k].op = "remove_dir_all_failed"}}

Ran == [k \in 1..Len(Done) |-> Done[k].data]

FailedWrites == {"save_cache_failed", "save_ignored_failed"}

\* C20: the text a request returns when a write of the cache record or of
\* the ignore record fails is the text the same request returns, on the
\* same disk, when its writes succeed.
C20_FailedWriteSameText ==
    (req # NoReq /\ \E i \in 1..Len(trace) : trace[i].op \in FailedWrites)
        => result = handle_elixir_projects(Unhindered, req, Denied, Ran).result

----------------------------------------------------------------------------
(* The reports of the batch operations. *)

\* The phrase git_pull and git_push look for, and the mark they give when it
\* is not there
Marker == IF req.action = "git_pull" THEN s_Already ELSE s_Everything

Fresh == IF req.action = "git_pull" THEN s_updated ELSE s_pushed

\* C22: git_pull and git_push mark a project whose command exited with 0 as
\* up to date when the marker phrase is on its standard output or on its
\* standard error, and as updated or pushed otherwise.
C22_MarkerInCombinedOutput ==
    (req.action \in {"git_pull", "git_push"} /\ projects # <<>>)
        => \A i \in 1..Len(projects) :
            (Done[i].data.spawned /\ Done[i].data.success)
                => result.items[i].status =
                    IF \/ contains(Done[i].data.stdout, Marker)
                       \/ contains(Done[i].data.stderr, Marker)
                    THEN Status("(ok)", s_up_to_date)
                    ELSE Status("(ok)", Fresh)

\* The positions of the projects of the request, in order, and those of them
\* that satisfy a condition
Positions == [i \in 1..Len(projects) |-> i]

NamesAt(positions) == [k \in 1..Len(positions) |-> LineOf(projects[positions[k]])]

\* outdated: the project ran its command and the command exited with a
\* non-zero status or printed the marker phrase
Flagged(i) ==
    /\ Done[i].data.spawned
    /\ (~Done[i].data.success \/ contains(Done[i].data.stdout, s_Newer))

\* outdated: the project has a block in the report
HasBlock(i) ==
    \/ ~Done[i].data.spawned
    \/ (Flagged(i) /\ outdated_deps(Done[i].data.stdout) # <<>>)

\* C23: outdated flags a project iff its command ran and exited with a
\* non-zero status or printed "Newer versions"; with no project flagged the
\* report is the one line "All N projects are up to date!", and else it
\* starts with the number of flagged projects over the total and goes on
\* with the blocks of the projects, in their order, a flagged project
\* without dependency line being counted without having a block.
C23_OutdatedReport ==
    (req.action = "outdated" /\ projects # <<>>)
        => IF \A i \in 1..Len(projects) : ~Flagged(i)
           THEN result = Text("All {} projects are up to date!", Len(projects), <<>>)
           ELSE /\ result.fmt = "{}/{} projects have outdated dependencies:{}"
                /\ result.n = Len(projects)
                /\ result.items.count = Cardinality({i \in 1..Len(projects) : Flagged(i)})
                /\ [k \in 1..Len(result.items.results) |-> result.items.results[k].name]
                        = NamesAt(SelectSeq(Positions, HasBlock))
                /\ \A k \in 1..Len(result.items.results) :
                        result.items.results[k].deps
                            = IF result.items.results[k].fmt = "\n(x) {} - error: {}" THEN <<>>
                              ELSE outdated_deps(Done[SelectSeq(Positions, HasBlock)[k]].data.stdout)

\* C23 happens: of two projects one prints the phrase alone and one prints
\* it with a dependency line; both are counted, one has a block.
C23_Witness ==
    /\ req.action = "outdated"
    /\ Len(projects) = 2
    /\ Len(Done) = 2
    /\ Done[1].data = NewerOnly
    /\ Done[2].data = NewerListed
    /\ result.items.count = 2
    /\ Len(result.items.results) = 1

\* git_status: what the two probes of a project say
Dirty(i) == Done[2 * i - 1].data.spawned /\ Done[2 * i - 1].data.stdout # <<>>

Ahead(i) == Done[2 * i].data.spawned /\ contains(Done[2 * i].data.stdout, s_ahead)

Clean(i) == ~Dirty(i) /\ ~Ahead(i)

\* C24: git_status lists a project as dirty iff the output of its first
\* probe is not empty, as ahead iff the output of its second probe contains
\* "ahead", in both lists when both hold, and counts it as clean iff neither
\* holds; the clean count and the number of listed projects add up to the
\* total, and the all-clean message is given iff both lists are empty.
C24_StatusClassification ==
    (req.action = "git_status" /\ projects # <<>>)
        => /\ Len(Done) = 2 * Len(projects)
           /\ IF \A i \in 1..Len(projects) : Clean(i)
              THEN result = Text("(ok) All {} projects are clean and pushed!", Len(projects), <<>>)
              ELSE /\ result.fmt # "(ok) All {} projects are clean and pushed!"
                   /\ result.items.dirty = NamesAt(SelectSeq(Positions, Dirty))
                   /\ result.items.ahead = NamesAt(SelectSeq(Positions, Ahead))
                   /\ result.n = Cardinality({i \in 1..Len(projects) : Clean(i)})
                   /\ result.n + Cardinality(Range(result.items.dirty) \cup Range(result.items.ahead))
                        = Len(projects)

\* C24 happens: of two projects one has changes and is ahead, and is in both
\* lists, and the other one is clean.
C24_Witness ==
    /\ req.action = "git_status"
    /\ Len(projects) = 2
    /\ Len(Done) = 4
    /\ Dirty(1) /\ Ahead(1) /\ Clean(2)
    /\ result.items.dirty = result.items.ahead
    /\ result.n = 1

----------------------------------------------------------------------------
(* The dispatcher. *)

ValidActions ==
    {"list", "update_deps", "outdated", "git_pull", "git_push", "git_status",
     "refresh", "delete", "ignore", "unignore"}

\* The actions whose handlers neither read nor write anything
PureActions == {"list", "refresh"}

\* C27: the project set the handler is given is the resolved set less the
\* projects whose lowercase name does not contain the lowercase filter, in
\* the same order, and the whole resolved set when there is no filter;
\* filtering writes neither record, the records staying as resolution left
\* them, and no project with an ignored name is in the set.
C27_NameFilter ==
    LET AsResolved(g) == cache = g.w.cache /\ ignored = g.w.ignored
    IN  req # NoReq
            => /\ projects = Matching(resolved.ret, req.project)
               /\ \A i \in 1..Len(projects) : projects[i][Len(projects[i])] \notin IgnoreSet
               /\ req.action \in PureActions
                    => /\ HandlerTrace = <<>>
                       /\ ignored = pre.ignored
                       /\ AsResolved(get_elixir_projects(Unhindered, req.path,
                                                         req.action = "refresh"))

\* C27 happens: a filter in upper case keeps a resolved project whose name
\* has it in lower case, and a project whose name is ignored and matches the
\* filter stays out.
C27_Witness ==
    /\ req.action = "list"
    /\ req.project = Some(s_CLUB)
    /\ projects # <<>>
    /\ projects = resolved.ret
    /\ \E p \in Range(SourceSet) :
        /\ p[Len(p)] \in IgnoreSet
        /\ contains(to_lowercase(p[Len(p)]), to_lowercase(s_CLUB))

\* C28: an action that is none of the ten valid ones, letter for letter, is
\* answered with the text that names it and lists the valid actions; no
\* command runs, nothing is removed and the ignore record stays as it was.
C28_UnknownAction ==
    (req # NoReq /\ req.action \notin ValidActions)
        => /\ result = Text("Unknown action '{}'. Use: list, update_deps, outdated, git_pull, git_push, git_status, refresh, delete, ignore, unignore",
                            0, req.action)
           /\ HandlerTrace = <<>>
           /\ \A i \in 1..Len(trace) : trace[i].op \notin Commands \cup Removals
           /\ dirs = pre.dirs /\ files = pre.files
           /\ ignored = pre.ignored

\* C28 happens: "List", which is "list" but for its capital, with projects
\* resolved and a name ignored.
C28_Witness ==
    /\ req.action = "List"
    /\ projects # <<>>
    /\ IgnoreSet # {}
    /\ result.items = "List"

\* C29: ignore without filter leaves the ignore record as it was, and
\* answers "No projects are currently ignored" when the set is empty and
\* else with its entries in ascending order.
C29_IgnoreListsSorted ==
    (req.action = "ignore" /\ ~req.project.some)
        => /\ ignored = pre.ignored
           /\ ~Has(trace, "save_ignored")
           /\ IF IgnoreSet = {}
              THEN result = Text("No projects are currently ignored", 0, <<>>)
              ELSE /\ result.fmt = "Ignored projects: {}"
                   /\ Range(result.items) = IgnoreSet
                   /\ Len(result.items) = Cardinality(IgnoreSet)
                   /\ \A i \in 1..(Len(result.items) - 1) :
                        BytesLess(result.items[i], result.items[i + 1])

\* C29 happens: two names are ignored and listed.
C29_Witness ==
    /\ req.action = "ignore" /\ ~req.project.some
    /\ Cardinality(IgnoreSet) >= 2
    /\ Len(result.items) = Cardinality(IgnoreSet)

\* C21: every request, whatever its action, filter and path, whatever the
\* disk holds, whatever the commands return and whether the writes succeed,
\* ends in a result with a text; no failure reaches the caller.
C21_AlwaysATextResult ==
    req # NoReq
        => /\ result.fmt \notin {"", "Err"}
           /\ result # NoResult

\* C21 happens: the write of the ignore record fails, and the request
\* answers with its text all the same.
C21_Witness ==
    /\ req.action = "unignore"
    /\ Has(trace, "save_ignored_failed")
    /\ result.fmt = "Unignored: {}"

\* The scan of the resolution started from a directory that is not there
MissingRoot ==
    \E i \in 1..Len(ResolutionTrace) :
        /\ ResolutionTrace[i].op = "scan"
        /\ ResolutionTrace[i].path \notin pre.dirs

\* C26: a scan from a start path that does not exist returns the empty
\* sequence, and a list or command request resolved from that scan answers
\* "No Elixir projects found".
C26_MissingRootIsEmpty ==
    /\ \A i \in 1..Len(trace) :
            (trace[i].op = "scan" /\ trace[i].path \notin pre.dirs) => trace[i].data = <<>>
    /\ (req.action \in BatchActions \cup {"list"} /\ MissingRoot)
            => /\ resolved.ret = <<>>
               /\ result = Text("No Elixir projects found", 0, <<>>)
               /\ HandlerTrace = <<>>

\* C26 happens: a list of a path that does not exist, while the default
\* root holds a project.
C26_Witness ==
    /\ req.action = "list"
    /\ req.path.some
    /\ MissingRoot
    /\ Discovered(pre, DefaultRoot) # <<>>
    /\ result.fmt = "No Elixir projects found"

----------------------------------------------------------------------------
(* C25 *)

Scanned == hist.call.fn = "scan_elixir_projects"

\* The directory a scan was told to start in
ScanStart == start_path(hist.call.arg[1])

\* Directory d is reached from start without passing through a directory of a
\* skipped name: no directory below start on the way to d, d included, has one
ReachedUnskipped(start, d) ==
    /\ IsPrefix(start, d)
    /\ \A n \in (Len(start) + 1)..Len(d) : d[n] \notin skip_dirs

Ascending(ps) == \A i, j \in 1..Len(ps) : i < j => PathLess(ps[i], ps[j])

\* C25: a scan returns, ascending by path and each once, exactly the
\* directories that directly hold a mix.exs and are reached from the start
\* path without passing through a directory named deps, _build, .elixir_ls,
\* node_modules, .git or _checkouts; a project inside a project is returned too.
C25_Discovery ==
    Scanned =>
        /\ Ascending(hist.call.ret.val)
        /\ Range(hist.call.ret.val) =
                {d \in dirs : MixFile(d) \in files /\ ReachedUnskipped(ScanStart, d)}

\* The same, for the scans whose start directory has no skipped name itself
C25_DiscoveryBelowAnUnskippedStart ==
    (Scanned /\ Entered(ScanStart, ScanStart)) => C25_Discovery

\* A scan that starts in an unskipped directory returns a project and the
\* project inside it, and not the project inside its deps
C25_NestedAndPruned ==
    /\ Scanned
    /\ hist.call.arg[1] = None
    /\ hist.call.ret.val = <<DefaultRoot \o <<s_Club>>, DefaultRoot \o <<s_Club, s_moneyclub>>>>
    /\ MixFile(DefaultRoot \o <<s_Club, s_deps, s_oneiros>>) \in files

----------------------------------------------------------------------------
(* C30 *)

\* Both instances have read the ignore record before either has written it,
\* and both have written it
LoadLoadSaveSave ==
    /\ Len(inst.log) = 4
    /\ inst.log[1].op = "load" /\ inst.log[2].op = "load"
    /\ inst.log[3].op = "save" /\ inst.log[4].op = "save"
    /\ inst.log[3].i # inst.log[4].i

EarlierSaver == inst.proc[inst.log[3].i]

LaterSaver == inst.proc[inst.log[4].i]

DifferentFilters == inst.proc[1].req.project # inst.proc[2].req.project

\* The names an instance added to or took out of the record it read
ChangedBy(p) == (p.ignored \ p.loaded) \cup (p.loaded \ p.ignored)

ReportedSuccess(p) ==
    \/ p.req.action = "ignore" /\ p.result.fmt = "Ignored: {}" /\ p.result.items # <<>>
    \/ p.req.action = "unignore" /\ p.result.fmt = "Unignored: {}" /\ p.result.items # {}

\* C30: when two instances run ignore or unignore with different filters and
\* their steps come as load, load, save, save, both report success, the
\* ignore record is in the end the set the later save wrote, and every name
\* that only the earlier instance added or removed is in the record, or not
\* in it, as it was before: the change of the earlier instance is lost.
C30_LastWriterWins ==
    (LoadLoadSaveSave /\ DifferentFilters) =>
        /\ ReportedSuccess(EarlierSaver) /\ ReportedSuccess(LaterSaver)
        /\ ignored = [exists |-> TRUE, lines |-> inst.log[4].names]
        /\ inst.log[4].names = LaterSaver.ignored
        /\ \A n \in ChangedBy(EarlierSaver) \ ChangedBy(LaterSaver) :
                n \in ignored.lines <=> n \in EarlierSaver.loaded

\* C30 happens: the earlier instance ignored a project, reported it, and the
\* name is not in the record after the save of the later instance
C30_Witness ==
    /\ LoadLoadSaveSave
    /\ DifferentFilters
    /\ EarlierSaver.req.action = "ignore"
    /\ EarlierSaver.result = Text("Ignored: {}", 0, <<s_moneyclub>>)
    /\ ReportedSuccess(LaterSaver)
    /\ s_moneyclub \notin ignored.lines

\* The same with an unignore: the name the earlier instance took out is back
C30_RemovalLost ==
    /\ LoadLoadSaveSave
    /\ DifferentFilters
    /\ EarlierSaver.req.action = "unignore"
    /\ EarlierSaver.result = Text("Unignored: {}", 0, {s_moneyclub})
    /\ ReportedSuccess(LaterSaver)
    /\ s_moneyclub \in ignored.lines

----------------------------------------------------------------------------
(* C31 *)

\* The projects there were when the request arrived and that are gone
DeletedProjects == {d \in pre.dirs \ dirs : Qualifies(pre, d)}

MatchesFilter(d) ==
    /\ req.project.some
    /\ contains(to_lowercase(d[Len(d)]), to_lowercase(req.project.val))

\* C31: every project a delete request removes has a name that contains the
\* filter, case ignored, and that is not in the ignore set; no request of
\* any kind removes a project whose name is in the ignore set.
C31_DeleteOnlyMatchingUnignored ==
    req # NoReq =>
        /\ req.action # "delete" => DeletedProjects = {}
        /\ \A d \in DeletedProjects : MatchesFilter(d) /\ d[Len(d)] \notin IgnoreSet

\* The same, for the projects that a removed project does not contain
C31_OutsideRemovedProjects ==
    req # NoReq =>
        /\ req.action # "delete" => DeletedProjects = {}
        /\ \A d \in DeletedProjects :
                \/ MatchesFilter(d) /\ d[Len(d)] \notin IgnoreSet
                \/ \E i \in 1..Len(trace) : /\ trace[i].op = "remove_dir_all"
                                            /\ trace[i].path # d
                                            /\ IsPrefix(trace[i].path, d)

\* A delete removes a project whose name does not match and none that contains it
C31_DeletesSomething ==
    /\ req.action = "delete"
    /\ DeletedProjects # {}
    /\ \E d \in pre.dirs \cap dirs : Qualifies(pre, d) /\ d[Len(d)] \in IgnoreSet

----------------------------------------------------------------------------
(* C32 *)

\* A request that found a cache record and is neither a refresh nor a delete
\* that tried to remove something
Ordinary ==
    /\ req # NoReq
    /\ pre.cache.exists
    /\ req.action # "refresh"
    /\ ~(req.action = "delete" /\ Attempted)

\* The projects of the default root that the cache record did not hold when
\* the request arrived
Uncached ==
    {d \in pre.dirs : /\ Qualifies(pre, d)
                      /\ Entered(DefaultRoot, d)
                      /\ d \notin Range(Recorded(pre.cache))}

\* C32: a request that finds a cache record, and is no refresh and no delete
\* that attempts a removal, leaves a cache record that holds no path the old
\* one did not hold; without a path override it scans nothing, in resolution
\* or in its handler, and a project the record does not hold is not in the
\* set handed to the handler, also when the record is empty.
C32_CacheNotReplacedByDiscovery ==
    Ordinary =>
        /\ cache.exists
        /\ Range(cache.lines) \subseteq Range(pre.cache.lines)
        /\ ~req.path.some =>
                /\ ~Has(trace, "scan")
                /\ Range(projects) \subseteq Range(Recorded(pre.cache))
                /\ Range(projects) \cap Uncached = {}

\* C32 happens: the record is empty, a project that is not ignored has been
\* created below the default root since, and list finds nothing
C32_Witness ==
    /\ Ordinary
    /\ req.action = "list"
    /\ req.path = None /\ req.project = None
    /\ pre.cache.lines = <<>>
    /\ \E d \in Uncached : d[Len(d)] \notin IgnoreSet
    /\ result = Text("No Elixir projects found", 0, <<>>)

\* The same happens to a batch operation
C32_BatchSeesNothing ==
    /\ Ordinary
    /\ req.action = "git_status"
    /\ req.path = None /\ req.project = None
    /\ \E d \in Uncached : d[Len(d)] \notin IgnoreSet
    /\ projects = <<>>

----------------------------------------------------------------------------
(* C33 *)

\* The requests k .. k+3 are list, ignore f, unignore f, list, and no name
\* that matches f was ignored before the ignore
ListIgnoreUnignoreList(k) ==
    /\ past[k].req = [action |-> "list", project |-> None, path |-> None]
    /\ past[k + 1].req.action = "ignore"
    /\ past[k + 2].req.action = "unignore"
    /\ past[k + 2].req.project = past[k + 1].req.project
    /\ past[k + 3].req = past[k].req
    /\ \A n \in past[k + 1].before :
            ~contains(to_lowercase(n), to_lowercase(past[k + 1].req.project.val))

\* C33: after list, ignore f, unignore f and list, with no name matching f
\* ignored before and the disk unchanged, the ignore set is what it was before
\* the ignore, the second list returns what the first returned, and neither
\* the ignore nor the unignore nor the second list has scanned.
C33_IgnoreUnignoreRestores ==
    \A k \in 1..(Len(past) - 3) :
        ListIgnoreUnignoreList(k) =>
            /\ past[k + 2].after = past[k + 1].before
            /\ past[k + 3].result = past[k].result
            /\ past[k + 3].projects = past[k].projects
            /\ ~past[k + 1].scanned /\ ~past[k + 2].scanned /\ ~past[k + 3].scanned

\* C33 happens: the ignore added a name while another name stayed ignored,
\* the unignore took it out, and the lists name a project
C33_Witness ==
    /\ Len(past) = 4
    /\ ListIgnoreUnignoreList(1)
    /\ past[1].result.fmt = "Found {} projects: {}"
    /\ past[2].result.fmt = "Ignored: {}"
    /\ past[2].after # past[2].before
    /\ past[2].before # {}
    /\ past[3].result.fmt = "Unignored: {}"
    /\ past[4].result = past[1].result

----------------------------------------------------------------------------
(* C34 *)

\* The cache record held an entry that no longer qualified
Stale == pre.cache.exists /\ Len(SelfHealed(pre, pre.cache)) < Len(pre.cache.lines)

\* Resolution wrote the given projects to the cache record
ResolutionSaved(ps) ==
    \E j \in 1..Len(ResolutionTrace) :
        ResolutionTrace[j].op = "save_cache" /\ ResolutionTrace[j].data = ps

\* C34: every request, whatever its action and whether its filter is there
\* or not, calls get_elixir_projects before its handler; without a path
\* override that call scans the default root and creates the cache record
\* when there is none, and writes the pruned record when the record is stale
\* and the scan is not forced.
C34_ResolutionBeforeDispatch ==
    req # NoReq =>
        /\ resolved.steps >= 1
        /\ ResolutionTrace[1].op = "load_ignored"
        /\ (~req.path.some /\ ~pre.cache.exists) =>
                /\ \E i \in 1..Len(ResolutionTrace) :
                        /\ ResolutionTrace[i].op = "scan"
                        /\ ResolutionTrace[i].path = DefaultRoot
                /\ ResolutionSaved(Discovered(pre, DefaultRoot))
                /\ cache.exists
        /\ (~req.path.some /\ Stale /\ req.action # "refresh") =>
                ResolutionSaved(SelfHealed(pre, pre.cache))

\* C34 happens: an unignore without filter returns its error and has created
\* the cache record with a project in it
C34_Witness ==
    /\ req = [action |-> "unignore", project |-> None, path |-> None]
    /\ result.fmt = "Error: 'project' filter is required for unignore action"
    /\ ~pre.cache.exists
    /\ cache.exists /\ cache.lines # <<>>

\* The same happens to an unknown action that finds a stale record
C34_UnknownRewrites ==
    /\ req.action = "List"
    /\ ~req.path.some
    /\ Stale
    /\ cache # pre.cache
    /\ HandlerTrace = <<>>

----------------------------------------------------------------------------
(* C35 *)

\* Two projects of the sequence at different paths have the name n
Twins(ps, n) ==
    \E i, j \in 1..Len(ps) : i # j /\ ps[i][Len(ps[i])] = n /\ ps[j][Len(ps[j])] = n

\* How often the name n is in a sequence of names
Occurrences(names, n) == Cardinality({k \in 1..Len(names) : names[k] = n})

\* C35: an ignore adds and reports a matching name once, however many of its
\* candidates have that name; resolution hands out no project whose name is
\* ignored, so that both projects of an ignored name are gone from it; and a
\* delete leaves none of the projects handed to it on disk, except those
\* whose removal failed, so that both projects of a matching name are removed.
C35_NamesAreNotIdentities ==
    req # NoReq =>
        /\ \A k \in 1..Len(resolved.ret) :
                resolved.ret[k][Len(resolved.ret[k])] \notin IgnoreSet
        /\ (req.action = "ignore" /\ req.project.some) =>
                \A n \in ToIgnore :
                    /\ result.fmt = "Ignored: {}"
                    /\ Occurrences(result.items, n) = 1
                    /\ n \in Lines(ignored)
        /\ (req.action = "delete" /\ req.project.some) =>
                \A k \in 1..Len(projects) :
                    projects[k] \in dirs => projects[k] \in Denied

\* C35 happens: two candidates of an ignore have the same name, which matches
\* and is reported once
C35_Witness ==
    /\ req.action = "ignore" /\ req.project.some
    /\ \E n \in ToIgnore :
        /\ Twins(Matching(Candidates, req.project), n)
        /\ result = Text("Ignored: {}", 0, <<n>>)

\* Resolution leaves out both projects of an ignored name
C35_BothIgnored ==
    /\ req.action = "list"
    /\ \E n \in IgnoreSet : Twins(SourceSet, n)
    /\ resolved.ret # <<>>

\* A delete removes two projects of the same name, neither inside the other
C35_BothDeleted ==
    /\ req.action = "delete" /\ req.project.some
    /\ \E n \in Names(projects) : Twins(projects, n)
    /\ \A k \in 1..Len(trace) : trace[k].op # "remove_dir_all_failed"
    /\ Len(projects) = 2
    /\ \A k \in 1..Len(projects) : projects[k] \notin dirs

----------------------------------------------------------------------------
(* C36 *)

\* C36: with one instance, writes that succeed and no cache record at the
\* start, the paths of the cache record are always in ascending order, each
\* once; and every project handed to a handler was a directory with a
\* mix.exs when the request arrived.
C36_CacheRecordSorted ==
    /\ cache.exists => Ascending(Recorded(cache))
    /\ req # NoReq => \A k \in 1..Len(projects) : Qualifies(pre, projects[k])

\* C36 happens: a request found two paths in the record, pruned one of them
\* and handed the other to its handler
C36_Witness ==
    /\ req # NoReq
    /\ Len(pre.cache.lines) = 2
    /\ Len(cache.lines) = 1
    /\ ~Has(trace, "scan")
    /\ projects = Recorded(cache)

----------------------------------------------------------------------------
(* C37 *)

\* The commands a request has to run: one for every project of its set, two
\* for git_status, none for the actions that run no command
Expected ==
    CASE req.action \in {"update_deps", "outdated", "git_pull", "git_push"} -> Len(projects)
      [] req.action = "git_status" -> 2 * Len(projects)
      [] OTHER -> 0

\* The report of a request is there after exactly the commands it has to run
ReportAfterExpected ==
    batch.pc = "reported" =>
        /\ result # NoResult
        /\ Len(batch.outs) = Expected
        /\ Len(Started) = Expected
        /\ Len(Done) = Expected

\* While the handler waits for a command, the one step there is is the end
\* of that command
OnlyTheCommandEndsTheWait ==
    [][batch.waiting =>
            /\ ~batch'.waiting
            /\ batch'.pc = "running"
            /\ Len(batch'.outs) = Len(batch.outs) + 1
            /\ req' = NoReq]_vars

\* C37: when every command is done at some time, every request comes to its
\* report, after exactly one command for every project of the filtered set
\* (two for git_status, none for the actions that run no command); and a
\* handler that waits for a command can do nothing until the command is done.
C37_TerminatesAfterBoundedInvocations ==
    /\ [](ReportAfterExpected)
    /\ OnlyTheCommandEndsTheWait
    /\ (batch.pc = "running") ~> (batch.pc = "reported")

\* C37 happens: git_status has run four commands for two projects and reports
C37_Witness ==
    /\ batch.pc = "reported"
    /\ req.action = "git_status"
    /\ Len(projects) = 2
    /\ Len(batch.outs) = 4
    /\ result # NoResult

\* With commands that may hang, a request that has begun comes to its report
C37_TerminatesAnyway == (batch.pc = "running") ~> (batch.pc = "reported")

----------------------------------------------------------------------------
(* The copy of the subsystem in main.rs: the tool method of Steve, with the *)
(* arms of its match written in place.  The helper functions of main.rs are *)
(* the functions of the module, token for token, and so are the bodies of  *)
(* the arms; the method wraps every result in Ok.                           *)

\* Ok(...) of Result<CallToolResult, McpError>
Ok(v) == [ok |-> TRUE, val |-> v]

\* Steve::elixir_projects, were it the copy of a version without the
\* actions ignore and unignore
elixir_projects_without_ignore(w, r, denied, run) ==
    LET Handled(g, ps, h) == [w |-> h.w, result |-> Ok(h.ret)]
        Dispatch(g, ps) ==
            Handled(g, ps,
                CASE r.action = "refresh"  -> handle_refresh(g.w, ps)
                  [] r.action = "list"     -> handle_list(g.w, ps)
                  [] r.action = "update_deps" -> handle_update_deps(g.w, ps, run)
                  [] r.action = "outdated"    -> handle_outdated(g.w, ps, run)
                  [] r.action = "git_pull"    -> handle_git_pull(g.w, ps, run)
                  [] r.action = "git_push"    -> handle_git_push(g.w, ps, run)
                  [] r.action = "git_status"  -> handle_git_status(g.w, ps, run)
                  [] r.action = "delete"   -> handle_delete(g.w, ps, r, denied)
                  [] OTHER                 -> handle_unknown(g.w, r))
        Resolved(g) == Dispatch(g, name_filter(g.ret, r.project))
    IN  Resolved(get_elixir_projects(w, r.path, r.action = "refresh"))

\* Steve::elixir_projects
elixir_projects(w, r, denied, run) ==
    LET Handled(g, ps, h) == [w |-> h.w, result |-> Ok(h.ret)]
        Dispatch(g, ps) ==
            Handled(g, ps,
                CASE r.action = "refresh"  -> handle_refresh(g.w, ps)
                  [] r.action = "list"     -> handle_list(g.w, ps)
                  [] r.action = "update_deps" -> handle_update_deps(g.w, ps, run)
                  [] r.action = "outdated"    -> handle_outdated(g.w, ps, run)
                  [] r.action = "git_pull"    -> handle_git_pull(g.w, ps, run)
                  [] r.action = "git_push"    -> handle_git_push(g.w, ps, run)
                  [] r.action = "git_status"  -> handle_git_status(g.w, ps, run)
                  [] r.action = "delete"   -> handle_delete(g.w, ps, r, denied)
                  [] r.action = "ignore"   -> handle_ignore(g.w, r)
                  [] r.action = "unignore" -> handle_unignore(g.w, r)
                  [] OTHER                 -> handle_unknown(g.w, r))
        Resolved(g) == Dispatch(g, name_filter(g.ret, r.project))
    IN  Resolved(get_elixir_projects(w, r.path, r.action = "refresh"))

\* The disk and the records as the request found them, with the writes
\* succeeding or failing as they did for the request
Found ==
    [dirs |-> pre.dirs, files |-> pre.files, cache |-> pre.cache, ignored |-> pre.ignored,
     writable |-> writable, full |-> full, trace |-> <<>>]

\* What the method of main.rs does with the request on the disk it found
Inline == elixir_projects(Found, req, Denied, Ran)

C38_DeleteWitness ==
    /\ req.action = "delete"
    /\ dirs # pre.dirs
    /\ Inline.w.dirs = dirs
    /\ Inline.w.cache = cache

====
